---- MODULE Spec2Model ----
(***************************************************************************)
(* Bundle writers of the compound-engineering plugin converter:            *)
(* writeOpenCodeBundle (src/targets/opencode.ts) and writeGeminiBundle     *)
(* (src/targets/gemini.ts) over a file system, with the file utilities of  *)
(* src/utils/files (backupFile, writeJson, writeText, ...) as awaited      *)
(* asynchronous operations that are issued, then settle (fulfil or reject).*)
(***************************************************************************)
EXTENDS Integers, Sequences, FiniteSets, TLC

\* ------------------------------------------------------------------ bounds
\* number of writer calls made one after another on the same output root
MaxRuns == 2

\* ------------------------------------------------------------ JSON values
\* field names used inside the mergeable sub-objects (server / tool names)
Names == {"x", "y"}
\* a scalar JSON value
JNum(n) == [k |-> "num", n |-> n]
\* a JSON object value one level down: field name -> scalar
JObj(f) == [k |-> "obj", f |-> f]
\* all sub-objects over Names whose fields carry the value v
SubObjs(v) == UNION {[S -> {v}] : S \in SUBSET Names}
\* a JSON array: its own properties are the indices "0", "1", ...
JArr(f) == [k |-> "arr", f |-> f]
\* the JSON value null
JNull == [k |-> "null"]
\* the empty JSON object `{}`
EmptyObj == [n \in {} |-> 0]

\* ----------------------------------------------------------- file content
\* a file holding the JSON text of object o
JsonFile(o) == [type |-> "json", obj |-> o]
\* a file holding plain text (a sequence of text pieces)
TextFile(body) == [type |-> "text", body |-> body]
\* a file whose content is not JSON
NotJson == TextFile(<<"not json">>)
\* no file at the path
Absent == [type |-> "absent"]

\* ------------------------------------------------------------------ paths
\* path.join(dir, `${base}${ext}`); bak = 0 for the file itself
File(dir, base, ext) == [dir |-> dir, base |-> base, ext |-> ext, bak |-> 0]
\* `${filePath}.bak.${timestamp}`
BackupPathOf(p, t) == [p EXCEPT !.bak = t]
\* the "no backup made" result of backupFile
NoPath == [dir |-> <<>>, base |-> "", ext |-> "", bak |-> 0]
\* path.basename(outputRoot)
basename(p) == p[Len(p)]
\* all ancestors of a directory, itself included (mkdir -p)
Prefixes(d) == {SubSeq(d, 1, n) : n \in 1..Len(d)}
\* d lies in the tree rooted at r
IsUnder(d, r) == Len(d) >= Len(r) /\ SubSeq(d, 1, Len(r)) = r

\* mutant: the directories are never nested under .opencode
resolveOpenCodePaths_flat(outputRoot) ==
    [root       |-> outputRoot,
     configPath |-> File(outputRoot, "opencode", ".json"),
     agentsDir  |-> outputRoot \o <<"agents">>,
     pluginsDir |-> outputRoot \o <<"plugins">>,
     skillsDir  |-> outputRoot \o <<"skills">>,
     commandDir |-> outputRoot \o <<"commands">>]

resolveOpenCodePaths(outputRoot) ==
    IF basename(outputRoot) = "opencode" \/ basename(outputRoot) = ".opencode"
    THEN [root       |-> outputRoot,
          configPath |-> File(outputRoot, "opencode", ".json"),
          agentsDir  |-> outputRoot \o <<"agents">>,
          pluginsDir |-> outputRoot \o <<"plugins">>,
          skillsDir  |-> outputRoot \o <<"skills">>,
          commandDir |-> outputRoot \o <<"commands">>]
    ELSE [root       |-> outputRoot,
          configPath |-> File(outputRoot, "opencode", ".json"),
          agentsDir  |-> outputRoot \o <<".opencode", "agents">>,
          pluginsDir |-> outputRoot \o <<".opencode", "plugins">>,
          skillsDir  |-> outputRoot \o <<".opencode", "skills">>,
          commandDir |-> outputRoot \o <<".opencode", "commands">>]

\* mutant: the commands are put into the skills directory
resolveGeminiPaths_shared(outputRoot) ==
    IF basename(outputRoot) = ".gemini"
    THEN [geminiDir   |-> outputRoot,
          skillsDir   |-> outputRoot \o <<"skills">>,
          commandsDir |-> outputRoot \o <<"skills">>]
    ELSE [geminiDir   |-> outputRoot \o <<".gemini">>,
          skillsDir   |-> outputRoot \o <<".gemini", "skills">>,
          commandsDir |-> outputRoot \o <<".gemini", "skills">>]

\* mutant: the output is nested under .gemini whatever the root is called
resolveGeminiPaths_nested(outputRoot) ==
    [geminiDir   |-> outputRoot \o <<".gemini">>,
     skillsDir   |-> outputRoot \o <<".gemini", "skills">>,
     commandsDir |-> outputRoot \o <<".gemini", "commands">>]

resolveGeminiPaths(outputRoot) ==
    IF basename(outputRoot) = ".gemini"
    THEN [geminiDir   |-> outputRoot,
          skillsDir   |-> outputRoot \o <<"skills">>,
          commandsDir |-> outputRoot \o <<"commands">>]
    ELSE [geminiDir   |-> outputRoot \o <<".gemini">>,
          skillsDir   |-> outputRoot \o <<".gemini", "skills">>,
          commandsDir |-> outputRoot \o <<".gemini", "commands">>]

\* path.join(paths.geminiDir, "settings.json")
settingsPath(outputRoot) == File(resolveGeminiPaths(outputRoot).geminiDir, "settings", ".json")

\* ---------------------------------------------------------------- strings
\* a name is the sequence of its characters
MaxNameLen == 3
\* one character of each class normalizeName tells apart: lower case, upper
\* case, dash, colon, slash, white space, anything else
Chars == {"a", "A", "-", ":", "/", " ", "."}
Lowercase == {"a", "b", "c", "d", "e", "f", "g", "h", "i", "j", "k", "l", "m",
              "n", "o", "p", "q", "r", "s", "t", "u", "v", "w", "x", "y", "z"}
Digits == <<"0", "1", "2", "3", "4", "5", "6", "7", "8", "9">>
Whitespace == {" "}
\* every name of at most n characters
Strings(n) == UNION {[1..m -> Chars] : m \in 0..n}

\* String.prototype.toLowerCase
toLowerCase(s) == [k \in 1..Len(s) |-> IF s[k] = "A" THEN "a" ELSE s[k]]

RECURSIVE DropWhile(_, _)
\* s without its leading characters of class C
DropWhile(s, C) == IF s # <<>> /\ Head(s) \in C THEN DropWhile(Tail(s), C) ELSE s

RECURSIVE DropEnd(_, _)
\* s without its trailing characters of class C
DropEnd(s, C) ==
    IF s # <<>> /\ s[Len(s)] \in C THEN DropEnd(SubSeq(s, 1, Len(s) - 1), C) ELSE s

\* String.prototype.trim
trim(s) == DropEnd(DropWhile(s, Whitespace), Whitespace)

RECURSIVE replaceRuns(_, _)
\* s.replace(/[C]+/g, "-"): every maximal run of characters of C becomes one dash
replaceRuns(s, C) ==
    IF s = <<>> THEN <<>>
    ELSE IF Head(s) \in C THEN <<"-">> \o replaceRuns(DropWhile(Tail(s), C), C)
    ELSE <<Head(s)>> \o replaceRuns(Tail(s), C)

RECURSIVE split(_, _)
\* s.split(sep) for a one-character separator
split(s, sep) ==
    IF \A k \in 1..Len(s) : s[k] # sep THEN <<s>>
    ELSE LET at == CHOOSE k \in 1..Len(s) : s[k] = sep /\ \A j \in 1..(k - 1) : s[j] # sep
         IN  <<SubSeq(s, 1, at - 1)>> \o split(SubSeq(s, at + 1, Len(s)), sep)

RECURSIVE join(_, _)
\* segs.join(sep)
join(segs, sep) ==
    IF segs = <<>> THEN <<>>
    ELSE IF Len(segs) = 1 THEN segs[1]
    ELSE segs[1] \o <<sep>> \o join(Tail(segs), sep)

RECURSIVE numeral(_)
\* `${index}`
numeral(n) == IF n < 10 THEN <<Digits[n + 1]>> ELSE numeral(n \div 10) \o <<Digits[(n % 10) + 1]>>

RECURSIVE normalizePath(_, _)
\* path.normalize over the segments still to read, acc the segments kept:
\* empty and "." segments vanish, ".." takes the segment before it away
normalizePath(segs, acc) ==
    IF segs = <<>> THEN acc
    ELSE IF Head(segs) = <<>> \/ Head(segs) = <<".">> THEN normalizePath(Tail(segs), acc)
    ELSE IF Head(segs) = <<".", ".">>
         THEN normalizePath(Tail(segs),
                            IF acc # <<>> /\ acc[Len(acc)] # <<".", ".">>
                            THEN SubSeq(acc, 1, Len(acc) - 1) ELSE Append(acc, Head(segs)))
    ELSE normalizePath(Tail(segs), Append(acc, Head(segs)))

\* path.join(dir, rel), as the segments below dir (".." first where the
\* result leaves dir)
pathJoin(rel) == normalizePath(split(rel, "/"), <<>>)

\* ----------------------------------------------------------------- inputs
\* the plugin's own skill directory that pass-through skills are copied from
SkillSource == <<"plugin", "skills", "skill-one">>
SkillDirEntry == [name |-> "skill-one", sourceDir |-> SkillSource]

OpenCodeRoots == {<<"proj">>, <<"home", ".opencode">>, <<"cfg", "opencode">>}
GeminiRoots == {<<"proj">>, <<"home", ".gemini">>}

\* bundle.config of an OpenCode bundle: $schema plus at most one of the
\* sub-objects mcp / permission / tools, and possibly a key "new"
OpenCodeConfigs ==
    {[k \in {"$schema"} |-> JNum(2)]}
    \cup {[k \in {"$schema", m} |-> IF k = m THEN JObj(f) ELSE JNum(2)] :
             m \in {"mcp", "permission", "tools"}, f \in {[n \in Names |-> 2]}}
    \cup {[k \in {"$schema", "new"} |-> JNum(2)]}

\* an opencode.json the user already has: one sub-object and a key "custom"
OpenCodeExisting ==
    {[k \in {"custom", m} |-> IF k = m THEN JObj([n \in {"x"} |-> 1]) ELSE JNum(1)] :
         m \in {"mcp", "permission", "tools"}}

\* bundles with no artifacts, one per config, and bundles with one artifact of
\* every kind
OpenCodeBundles ==
    {[config |-> c, agents |-> <<>>, commandFiles |-> <<>>, plugins |-> <<>>, skillDirs |-> <<>>] :
        c \in OpenCodeConfigs}
    \cup
    {[config |-> c,
      agents |-> <<[name |-> "agent-one", content |-> <<"Agent content">>]>>,
      commandFiles |-> <<[name |-> "my-cmd", content |-> <<"New content.">>]>>,
      plugins |-> <<[name |-> "hook.ts", content |-> <<"export {}", "\n">>]>>,
      skillDirs |-> <<SkillDirEntry>>] :
        c \in {o \in OpenCodeConfigs : DOMAIN o \subseteq {"$schema", "mcp"}}}

\* bundle.mcpServers of a Gemini bundle: undefined, or an object over Names
NoServers == [k |-> "undefined"]
GeminiServers == {NoServers} \cup {JObj(f) : f \in SubObjs(2)}

\* a settings.json the user already has: optional model, optional mcpServers
\* (an object over Names, or a value that is not an object: a number, null,
\* an array)
GeminiExisting ==
    {[k \in K |-> IF k = "model" THEN JNum(1) ELSE v] :
        K \in SUBSET {"model", "mcpServers"},
        v \in {JNum(1), JNull, JArr([n \in {"0"} |-> 1])} \cup {JObj(f) : f \in SubObjs(1)}}

GeminiBundles ==
    {[generatedSkills |-> <<>>, skillDirs |-> <<>>, commands |-> <<>>, mcpServers |-> m] :
        m \in GeminiServers}
    \cup
    {[generatedSkills |-> <<[name |-> "reviewer", content |-> <<"Reviewer skill">>]>>,
      skillDirs |-> <<SkillDirEntry>>,
      commands |-> <<[name |-> <<"workflows", "plan">>, content |-> <<"Plan.", "\n">>]>>,
      mcpServers |-> m] :
        m \in {NoServers, JObj(EmptyObj), JObj([n \in Names |-> 2])}}

\* ------------------------------------------------------------------ state
VARIABLES
    target,           \* which writer this installation uses
    outputRoot,       \* the outputRoot argument of the writer calls
    fs,               \* the files on disk: path -> content
    dirs,             \* the directories on disk
    clock,            \* the time stamp the next backup gets
    runs,             \* writer calls started so far
    pc,               \* position of the current writer call
    bundle,           \* the bundle argument of the current call
    i,                \* index of the running for-of loop
    pending,          \* file operations issued and not yet settled
    err,              \* the awaited operation rejected
    backupPath,       \* value of the last `await backupFile(...)`
    settingsExists,   \* value of `await pathExists(settingsPath)`
    existingSettings, \* local `existingSettings` of writeGeminiBundle
    console,          \* lines printed by the current call
    fs0,              \* history: the files when the current call started
    backupInvoked,    \* history: paths handed to backupFile in this call
    backupDone,       \* history: paths whose backupFile has fulfilled
    failedOp,         \* history: the operations that rejected in this call
    replaced,         \* history: contents of the config file lost to overwrites
    plugin,           \* the ClaudePlugin handed to the converter
    converted,        \* the GeminiBundle convertClaudeToGemini returned
    cliCommand,       \* the CLI command of the run: convert or install
    args,             \* its arguments
    targets,          \* the registry of target handlers
    cliPc,            \* position of the run
    extraIndex,       \* index of the for-of loop over extraTargets
    tempRoot,         \* the temporary directory of the GitHub clone
    writing,          \* the name of the target whose write is awaited
    caught,           \* the error thrown inside install's try block
    trace             \* history: what the run has called and printed

vars == <<target, outputRoot, fs, dirs, clock, runs, pc, bundle, i, pending, err,
          backupPath, settingsExists, existingSettings, console,
          fs0, backupInvoked, backupDone, failedOp, replaced, plugin, converted,
          cliCommand, args, targets, cliPc, extraIndex, tempRoot, writing, caught, trace>>

locals == <<backupPath, settingsExists, existingSettings>>
disk == <<fs, dirs, clock, replaced>>
\* what no step of a writer call changes
cli == <<cliCommand, args, targets, cliPc, extraIndex, tempRoot, writing, caught, trace>>
fixed == <<target, outputRoot, plugin, converted, cli>>

\* f with the file p set to content c
Put(f, p, c) == [q \in DOMAIN f \cup {p} |-> IF q = p THEN c ELSE f[q]]
\* the function with the pairs of both, g winning (`{ ...f, ...g }`)
Spread(f, g) == [n \in DOMAIN f \cup DOMAIN g |-> IF n \in DOMAIN g THEN g[n] ELSE f[n]]
\* every directory that has to exist for the files of f
DirsOf(f) == UNION {Prefixes(p.dir) : p \in DOMAIN f}

\* the single config file of the installation
configFile ==
    IF target = "opencode" THEN resolveOpenCodePaths(outputRoot).configPath
    ELSE settingsPath(outputRoot)

\* files a previous installation left at the places the writers write to
OldArtifacts(t, root) ==
    IF t = "opencode"
    THEN LET P == resolveOpenCodePaths(root) IN
         {File(P.agentsDir, "agent-one", ".md"), File(P.commandDir, "my-cmd", ".md"),
          File(P.pluginsDir, "hook.ts", ""), File(P.skillsDir \o <<"skill-one">>, "SKILL", ".md")}
    ELSE LET P == resolveGeminiPaths(root) IN
         {File(P.skillsDir \o <<"reviewer">>, "SKILL", ".md"),
          File(P.skillsDir \o <<"skill-one">>, "SKILL", ".md"),
          File(P.commandsDir \o <<"workflows">>, "plan", ".toml")}

\* the disk before the first call: the plugin's skill directory, possibly a
\* config file (JSON or not), possibly the files of an earlier installation
InitialFs(t, root, cfg, old) ==
    LET src == [p \in {File(SkillSource, "SKILL", ".md")} |-> TextFile(<<"skill one">>)]
        art == [p \in (IF old THEN OldArtifacts(t, root) ELSE {}) |-> TextFile(<<"old content", "\n">>)]
        cf  == IF t = "opencode" THEN resolveOpenCodePaths(root).configPath ELSE settingsPath(root)
        withArt == Spread(src, art)
    IN  IF cfg = Absent THEN withArt ELSE Put(withArt, cf, cfg)

\* no writer call has been made
NoCall ==
    /\ clock = 1
    /\ runs = 0
    /\ pc = "idle"
    /\ bundle = [config |-> EmptyObj]
    /\ i = 1
    /\ pending = {}
    /\ err = FALSE
    /\ backupPath = NoPath
    /\ settingsExists = FALSE
    /\ existingSettings = EmptyObj
    /\ console = {}
    /\ fs0 = fs
    /\ backupInvoked = {}
    /\ backupDone = {}
    /\ failedOp = {}
    /\ replaced = <<>>

\* targets/index.ts: the registry; every handler is implemented
Registry ==
    [n \in {"opencode", "codex", "droid", "cursor", "pi", "gemini"} |-> [name |-> n, implemented |-> TRUE]]
\* "no error", "no target"
None == "none"
\* no CLI command is running
NoRun ==
    /\ cliCommand = None
    /\ args = [to |-> "opencode", also |-> <<>>, permissions |-> "broad", plugin |-> "local"]
    /\ targets = Registry
    /\ cliPc = "idle"
    /\ extraIndex = 1
    /\ tempRoot = None
    /\ writing = None
    /\ caught = None
    /\ trace = <<>>

\* no plugin has been handed to the converter
NoPlugin == [skills |-> <<>>, agents |-> <<>>, commands |-> <<>>]
\* the converter has not returned
NotConverted == [k |-> "undefined"]

Init ==
    /\ target \in {"opencode", "gemini"}
    /\ outputRoot \in (IF target = "opencode" THEN OpenCodeRoots ELSE GeminiRoots)
    /\ \E old \in BOOLEAN :
       \E cfg \in {Absent, NotJson}
                  \cup {JsonFile(o) : o \in (IF target = "opencode" THEN OpenCodeExisting ELSE GeminiExisting)} :
          /\ fs = InitialFs(target, outputRoot, cfg, old)
          /\ dirs = DirsOf(fs)
    /\ NoCall
    /\ plugin = NoPlugin
    /\ converted = NotConverted
    /\ NoRun

\* ------------------------------------------- file utilities (utils/files)
\* an operation of utils/files as issued by a writer
Op(kind, path, dir, src, content) ==
    [kind |-> kind, path |-> path, dir |-> dir, src |-> src, content |-> content]
ensureDir(d) == Op("ensureDir", NoPath, d, <<>>, Absent)
backupFile(p) == Op("backupFile", p, <<>>, <<>>, Absent)
writeJson(p, o) == Op("writeJson", p, <<>>, <<>>, JsonFile(o))
writeText(p, body) == Op("writeText", p, <<>>, <<>>, TextFile(body))
copyDir(s, d) == Op("copyDir", NoPath, d, s, Absent)
pathExists(p) == Op("pathExists", p, <<>>, <<>>, Absent)
readJson(p) == Op("readJson", p, <<>>, <<>>, Absent)

\* the operation leaves the set of operations in flight
Settled(op) == pending' = pending \ {op}

\* history: a write that replaces the config file loses the content it had
Replacing(p) ==
    IF p = configFile /\ p \in DOMAIN fs THEN Append(replaced, fs[p]) ELSE replaced

\* ensureDir fulfils: the directory and its ancestors exist
EnsureDir ==
    \E op \in pending :
        /\ op.kind = "ensureDir"
        /\ dirs' = dirs \cup Prefixes(op.dir)
        /\ Settled(op)
        /\ UNCHANGED <<fixed, fs, clock, replaced, runs, pc, bundle, i, err, locals, console,
                       fs0, backupInvoked, backupDone, failedOp>>

\* backupFile fulfils: no file, no backup (null); else the file's content is
\* copied to <path>.bak.<timestamp>, a name no earlier backup has
BackupFile ==
    \E op \in pending :
        /\ op.kind = "backupFile"
        /\ IF op.path \in DOMAIN fs
           THEN /\ fs' = Put(fs, BackupPathOf(op.path, clock), fs[op.path])
                /\ clock' = clock + 1
                /\ backupPath' = BackupPathOf(op.path, clock)
           ELSE /\ backupPath' = NoPath
                /\ UNCHANGED <<fs, clock>>
        /\ backupDone' = backupDone \cup {op.path}
        /\ Settled(op)
        /\ UNCHANGED <<fixed, dirs, replaced, runs, pc, bundle, i, err, settingsExists,
                       existingSettings, console, fs0, backupInvoked, failedOp>>

\* writeJson / writeText fulfil: parent directories exist, the file holds
\* the new content
WriteFile ==
    \E op \in pending :
        /\ op.kind \in {"writeJson", "writeText"}
        /\ fs' = Put(fs, op.path, op.content)
        /\ dirs' = dirs \cup Prefixes(op.path.dir)
        /\ replaced' = Replacing(op.path)
        /\ Settled(op)
        /\ UNCHANGED <<fixed, clock, runs, pc, bundle, i, err, locals, console,
                       fs0, backupInvoked, backupDone, failedOp>>

\* the files copyDir(s, d) creates or overwrites: one per file under s
Copied(s, d) ==
    LET from == {p \in DOMAIN fs : IsUnder(p.dir, s)}
        to(p) == [p EXCEPT !.dir = d \o SubSeq(p.dir, Len(s) + 1, Len(p.dir))]
    IN  [q \in {to(p) : p \in from} |-> fs[CHOOSE p \in from : to(p) = q]]

\* copyDir fulfils: recursive copy, overwriting, nothing deleted
CopyDir ==
    \E op \in pending :
        /\ op.kind = "copyDir"
        /\ fs' = Spread(fs, Copied(op.src, op.dir))
        /\ dirs' = dirs \cup Prefixes(op.dir) \cup DirsOf(Copied(op.src, op.dir))
        /\ Settled(op)
        /\ UNCHANGED <<fixed, clock, replaced, runs, pc, bundle, i, err, locals, console,
                       fs0, backupInvoked, backupDone, failedOp>>

\* pathExists fulfils with a boolean; it never rejects
PathExists ==
    \E op \in pending :
        /\ op.kind = "pathExists"
        /\ settingsExists' = (op.path \in DOMAIN fs)
        /\ Settled(op)
        /\ UNCHANGED <<fixed, disk, runs, pc, bundle, i, err, backupPath, existingSettings,
                       console, fs0, backupInvoked, backupDone, failedOp>>

\* readJson fulfils with the parsed object, or rejects on malformed content
ReadJson ==
    \E op \in pending :
        /\ op.kind = "readJson"
        /\ IF op.path \in DOMAIN fs /\ fs[op.path].type = "json"
           THEN /\ existingSettings' = fs[op.path].obj
                /\ UNCHANGED <<err, failedOp>>
           ELSE /\ err' = TRUE
                /\ failedOp' = failedOp \cup {op}
                /\ UNCHANGED existingSettings
        /\ Settled(op)
        /\ UNCHANGED <<fixed, disk, runs, pc, bundle, i, backupPath, settingsExists,
                       console, fs0, backupInvoked, backupDone>>

\* a file-system error during directory creation, backup, write or copy
\* (permissions, disk full): the operation rejects and leaves the disk as it
\* was; readJson rejects on malformed content only, pathExists never
Reject ==
    \E op \in pending :
        /\ op.kind \notin {"pathExists", "readJson"}
        /\ err' = TRUE
        /\ failedOp' = failedOp \cup {op}
        /\ Settled(op)
        /\ UNCHANGED <<fixed, disk, runs, pc, bundle, i, locals, console,
                       fs0, backupInvoked, backupDone>>

\* --------------------------------------------------------- await, throw
\* mutant: the operation is called without `await`
AwaitOk_notAwaited == ~err
\* mutant: a rejection is swallowed and the function carries on
AwaitOk_swallowed == pending = {}
\* `await op` has returned: the operation settled and did not reject
AwaitOk == pending = {} /\ ~err
\* `await op` throws: the operation settled by rejecting
AwaitThrows == pending = {} /\ err

\* the writer calls the next operation of utils/files
Issue(op) == pending' = pending \cup {op}

\* no writer call is running
CallOver == pc \in {"idle", "returned", "threw"}

\* what every call starts from
Enter(b) ==
    /\ CallOver
    /\ runs < MaxRuns
    /\ runs' = runs + 1
    /\ bundle' = b
    /\ i' = 1
    /\ err' = FALSE
    /\ backupPath' = NoPath
    /\ settingsExists' = FALSE
    /\ existingSettings' = EmptyObj
    /\ console' = {}
    /\ fs0' = fs
    /\ backupInvoked' = {}
    /\ backupDone' = {}
    /\ failedOp' = {}
    /\ UNCHANGED <<fixed, disk>>

\* a step of the running call that only moves on or issues an operation
Step == UNCHANGED <<fixed, disk, runs, bundle, err, locals, fs0, backupDone, failedOp>>

\* ------------------------------------------------- writeOpenCodeBundle
openCodePaths == resolveOpenCodePaths(outputRoot)

\* opencode.ts:5-7  entry, resolve paths, ensureDir(root)
writeOpenCodeBundle ==
    \E b \in OpenCodeBundles :
        /\ target = "opencode"
        /\ Enter(b)
        /\ Issue(ensureDir(openCodePaths.root))
        /\ pc' = "oc_backupConfig"

\* mutant: the config file is written without a backup
OC_backupConfig_skipped ==
    /\ pc = "oc_backupConfig" /\ AwaitOk
    /\ pc' = "oc_writeConfig"
    /\ UNCHANGED <<i, pending, console, backupInvoked>>
    /\ Step

\* opencode.ts:9  backupFile(configPath)
OC_backupConfig ==
    /\ pc = "oc_backupConfig" /\ AwaitOk
    /\ Issue(backupFile(openCodePaths.configPath))
    /\ backupInvoked' = backupInvoked \cup {openCodePaths.configPath}
    /\ pc' = "oc_writeConfig"
    /\ UNCHANGED <<i, console>>
    /\ Step

\* mutant: the agents are written before opencode.json is
OC_writeConfig_omitted ==
    /\ pc = "oc_writeConfig" /\ AwaitOk
    /\ pc' = "oc_agents"
    /\ i' = 1
    /\ UNCHANGED <<pending, console, backupInvoked>>
    /\ Step

\* opencode.ts:10-13  log the backup, writeJson(configPath, bundle.config)
OC_writeConfig ==
    /\ pc = "oc_writeConfig" /\ AwaitOk
    /\ console' = IF backupPath # NoPath THEN console \cup {"Backed up existing config"} ELSE console
    /\ Issue(writeJson(openCodePaths.configPath, bundle.config))
    /\ pc' = "oc_agents"
    /\ i' = 1
    /\ UNCHANGED backupInvoked
    /\ Step

\* opencode.ts:15-18  for each agent: writeText(<agentsDir>/<name>.md)
OC_writeAgent ==
    /\ pc = "oc_agents" /\ AwaitOk
    /\ i <= Len(bundle.agents)
    /\ Issue(writeText(File(openCodePaths.agentsDir, bundle.agents[i].name, ".md"),
                       bundle.agents[i].content \o <<"\n">>))
    /\ i' = i + 1
    /\ UNCHANGED <<pc, console, backupInvoked>>
    /\ Step

OC_agentsDone ==
    /\ pc = "oc_agents" /\ AwaitOk
    /\ i > Len(bundle.agents)
    /\ pc' = "oc_commandBackup"
    /\ i' = 1
    /\ UNCHANGED <<pending, console, backupInvoked>>
    /\ Step

\* path.join(openCodePaths.commandDir, `${commandFile.name}.md`)
commandDest(j) == File(openCodePaths.commandDir, bundle.commandFiles[j].name, ".md")

\* mutant: a command file is written without a backup
OC_backupCommand_skipped ==
    /\ pc = "oc_commandBackup" /\ AwaitOk
    /\ i <= Len(bundle.commandFiles)
    /\ pc' = "oc_commandWrite"
    /\ UNCHANGED <<i, pending, console, backupInvoked>>
    /\ Step

\* opencode.ts:20-22  for each command file: backupFile(dest)
OC_backupCommand ==
    /\ pc = "oc_commandBackup" /\ AwaitOk
    /\ i <= Len(bundle.commandFiles)
    /\ Issue(backupFile(commandDest(i)))
    /\ backupInvoked' = backupInvoked \cup {commandDest(i)}
    /\ pc' = "oc_commandWrite"
    /\ UNCHANGED <<i, console>>
    /\ Step

\* opencode.ts:23-26  log the backup, writeText(dest, content + "\n")
OC_writeCommand ==
    /\ pc = "oc_commandWrite" /\ AwaitOk
    /\ console' = IF backupPath # NoPath
                  THEN console \cup {"Backed up existing command file"} ELSE console
    /\ Issue(writeText(commandDest(i), bundle.commandFiles[i].content \o <<"\n">>))
    /\ pc' = "oc_commandBackup"
    /\ i' = i + 1
    /\ UNCHANGED backupInvoked
    /\ Step

OC_commandsDone ==
    /\ pc = "oc_commandBackup" /\ AwaitOk
    /\ i > Len(bundle.commandFiles)
    /\ pc' = "oc_plugins"
    /\ i' = 1
    /\ UNCHANGED <<pending, console, backupInvoked>>
    /\ Step

\* opencode.ts:29-34  for each plugin: writeText(<pluginsDir>/<name>)
OC_writePlugin ==
    /\ pc = "oc_plugins" /\ AwaitOk
    /\ i <= Len(bundle.plugins)
    /\ Issue(writeText(File(openCodePaths.pluginsDir, bundle.plugins[i].name, ""),
                       bundle.plugins[i].content \o <<"\n">>))
    /\ i' = i + 1
    /\ UNCHANGED <<pc, console, backupInvoked>>
    /\ Step

OC_pluginsDone ==
    /\ pc = "oc_plugins" /\ AwaitOk
    /\ i > Len(bundle.plugins)
    /\ pc' = "oc_skills"
    /\ i' = 1
    /\ UNCHANGED <<pending, console, backupInvoked>>
    /\ Step

\* opencode.ts:36-41  for each skill: copyDir(sourceDir, <skillsDir>/<name>)
OC_copySkill ==
    /\ pc = "oc_skills" /\ AwaitOk
    /\ i <= Len(bundle.skillDirs)
    /\ Issue(copyDir(bundle.skillDirs[i].sourceDir,
                     openCodePaths.skillsDir \o <<bundle.skillDirs[i].name>>))
    /\ i' = i + 1
    /\ UNCHANGED <<pc, console, backupInvoked>>
    /\ Step

\* opencode.ts:42  the promise of writeOpenCodeBundle fulfils
OC_return ==
    /\ pc = "oc_skills" /\ AwaitOk
    /\ i > Len(bundle.skillDirs)
    /\ pc' = "returned"
    /\ UNCHANGED <<i, pending, console, backupInvoked>>
    /\ Step

\* --------------------------------------------------- writeGeminiBundle
paths == resolveGeminiPaths(outputRoot)

\* mutant: the root directory is not created
writeGeminiBundle_noEnsureDir ==
    \E b \in GeminiBundles :
        /\ target = "gemini"
        /\ Enter(b)
        /\ UNCHANGED pending
        /\ pc' = "gm_skills"

\* gemini.ts:5-7  entry, resolve paths, ensureDir(geminiDir)
writeGeminiBundle ==
    \E b \in GeminiBundles :
        /\ target = "gemini"
        /\ Enter(b)
        /\ Issue(ensureDir(paths.geminiDir))
        /\ pc' = "gm_skills"

\* gemini.ts:9-13  for each generated skill: writeText(<skillsDir>/<name>/SKILL.md)
GM_writeSkill ==
    /\ pc = "gm_skills" /\ AwaitOk
    /\ i <= Len(bundle.generatedSkills)
    /\ Issue(writeText(File(paths.skillsDir \o <<bundle.generatedSkills[i].name>>, "SKILL", ".md"),
                       bundle.generatedSkills[i].content \o <<"\n">>))
    /\ i' = i + 1
    /\ UNCHANGED <<pc, console, backupInvoked>>
    /\ Step

GM_skillsDone ==
    /\ pc = "gm_skills" /\ AwaitOk
    /\ i > Len(bundle.generatedSkills)
    /\ pc' = "gm_skillDirs"
    /\ i' = 1
    /\ UNCHANGED <<pending, console, backupInvoked>>
    /\ Step

\* gemini.ts:15-19  for each skill dir: copyDir(sourceDir, <skillsDir>/<name>)
GM_copySkill ==
    /\ pc = "gm_skillDirs" /\ AwaitOk
    /\ i <= Len(bundle.skillDirs)
    /\ Issue(copyDir(bundle.skillDirs[i].sourceDir,
                     paths.skillsDir \o <<bundle.skillDirs[i].name>>))
    /\ i' = i + 1
    /\ UNCHANGED <<pc, console, backupInvoked>>
    /\ Step

GM_skillDirsDone ==
    /\ pc = "gm_skillDirs" /\ AwaitOk
    /\ i > Len(bundle.skillDirs)
    /\ pc' = "gm_commands"
    /\ i' = 1
    /\ UNCHANGED <<pending, console, backupInvoked>>
    /\ Step

\* path.join(paths.commandsDir, `${command.name}.toml`); a name "a/b" is the
\* segments <<"a", "b">>, the last one being the file's stem
commandToml(name) ==
    File(paths.commandsDir \o SubSeq(name, 1, Len(name) - 1), name[Len(name)], ".toml")

\* mutant: the command file is written as the bare content
GM_writeCommand_bare ==
    /\ pc = "gm_commands" /\ AwaitOk
    /\ i <= Len(bundle.commands)
    /\ Issue(writeText(commandToml(bundle.commands[i].name), bundle.commands[i].content))
    /\ i' = i + 1
    /\ UNCHANGED <<pc, console, backupInvoked>>
    /\ Step

\* gemini.ts:21-25  for each command: writeText(<commandsDir>/<name>.toml)
GM_writeCommand ==
    /\ pc = "gm_commands" /\ AwaitOk
    /\ i <= Len(bundle.commands)
    /\ Issue(writeText(commandToml(bundle.commands[i].name),
                       bundle.commands[i].content \o <<"\n">>))
    /\ i' = i + 1
    /\ UNCHANGED <<pc, console, backupInvoked>>
    /\ Step

GM_commandsDone ==
    /\ pc = "gm_commands" /\ AwaitOk
    /\ i > Len(bundle.commands)
    /\ pc' = "gm_mcp"
    /\ i' = 1
    /\ UNCHANGED <<pending, console, backupInvoked>>
    /\ Step

\* mutant: an empty mcpServers object counts as servers to merge
HasServers_defined(b) == b.mcpServers.k = "obj"

\* gemini.ts:27  bundle.mcpServers && Object.keys(bundle.mcpServers).length > 0
HasServers(b) == b.mcpServers.k = "obj" /\ DOMAIN b.mcpServers.f # {}

\* gemini.ts:27,50  nothing to merge: the promise fulfils
GM_noServers ==
    /\ pc = "gm_mcp"
    /\ ~HasServers(bundle)
    /\ pc' = "returned"
    /\ UNCHANGED <<i, pending, console, backupInvoked>>
    /\ Step

\* mutant: settings.json is written without a backup
GM_backupSettings_skipped ==
    /\ pc = "gm_mcp"
    /\ HasServers(bundle)
    /\ pc' = "gm_exists"
    /\ UNCHANGED <<i, pending, console, backupInvoked>>
    /\ Step

\* gemini.ts:28-29  backupFile(settingsPath)
GM_backupSettings ==
    /\ pc = "gm_mcp"
    /\ HasServers(bundle)
    /\ Issue(backupFile(settingsPath(outputRoot)))
    /\ backupInvoked' = backupInvoked \cup {settingsPath(outputRoot)}
    /\ pc' = "gm_exists"
    /\ UNCHANGED <<i, console>>
    /\ Step

\* gemini.ts:30-36  log the backup, existingSettings = {}, pathExists(settingsPath)
GM_pathExists ==
    /\ pc = "gm_exists" /\ AwaitOk
    /\ console' = IF backupPath # NoPath
                  THEN console \cup {"Backed up existing settings.json"} ELSE console
    /\ existingSettings' = EmptyObj
    /\ Issue(pathExists(settingsPath(outputRoot)))
    /\ pc' = "gm_read"
    /\ UNCHANGED <<fixed, disk, runs, bundle, err, backupPath, settingsExists, fs0,
                   backupDone, failedOp, i, backupInvoked>>

\* gemini.ts:36-38  the file exists: try readJson(settingsPath)
GM_readJson ==
    /\ pc = "gm_read" /\ AwaitOk
    /\ settingsExists
    /\ Issue(readJson(settingsPath(outputRoot)))
    /\ pc' = "gm_try"
    /\ UNCHANGED <<i, console, backupInvoked>>
    /\ Step

\* gemini.ts:36  the file does not exist: existingSettings stays {}
GM_skipRead ==
    /\ pc = "gm_read" /\ AwaitOk
    /\ ~settingsExists
    /\ pc' = "gm_merge"
    /\ UNCHANGED <<i, pending, console, backupInvoked>>
    /\ Step

\* gemini.ts:38  readJson returned: existingSettings holds the parsed object
GM_readOk ==
    /\ pc = "gm_try" /\ AwaitOk
    /\ pc' = "gm_merge"
    /\ UNCHANGED <<i, pending, console, backupInvoked>>
    /\ Step

\* mutant: the parse error is not caught and fails the call
GM_catch_rethrows ==
    /\ pc = "gm_try" /\ AwaitThrows
    /\ pc' = "threw"
    /\ UNCHANGED <<i, pending, console, backupInvoked>>
    /\ Step

\* gemini.ts:39-41  catch: warn, existingSettings stays {}
GM_catch ==
    /\ pc = "gm_try" /\ AwaitThrows
    /\ err' = FALSE
    /\ console' = console \cup {"Warning: existing settings.json could not be parsed"}
    /\ pc' = "gm_merge"
    /\ UNCHANGED <<fixed, disk, runs, bundle, locals, fs0, backupDone, failedOp,
                   i, pending, backupInvoked>>

\* mutant: the servers of the existing file are forgotten
existingMcp_forgotten(es) == EmptyObj

\* JavaScript's truthiness and typeof of a parsed JSON value
truthy(v) == v.k \in {"obj", "arr"} \/ (v.k = "num" /\ v.n # 0)
typeof(v) == IF v.k \in {"obj", "arr", "null"} THEN "object" ELSE "number"

\* gemini.ts:44-46  (existingSettings.mcpServers && typeof ... === "object")
\* ? existingSettings.mcpServers : {}; spread later, which takes the own
\* properties of an object and the indices of an array
existingMcp(es) ==
    IF "mcpServers" \in DOMAIN es /\ truthy(es.mcpServers) /\ typeof(es.mcpServers) = "object"
    THEN es.mcpServers.f ELSE EmptyObj

\* mutant: the other keys of the existing file are not spread into the result
merged_onlyServers(es, servers) ==
    [k \in {"mcpServers"} |-> JObj(Spread(existingMcp(es), servers.f))]

\* gemini.ts:47  { ...existingSettings, mcpServers: { ...existingMcp, ...bundle.mcpServers } }
merged(es, servers) ==
    Spread(es, [k \in {"mcpServers"} |-> JObj(Spread(existingMcp(es), servers.f))])

\* gemini.ts:44-48  merge, writeJson(settingsPath, merged)
GM_writeSettings ==
    /\ pc = "gm_merge"
    /\ Issue(writeJson(settingsPath(outputRoot), merged(existingSettings, bundle.mcpServers)))
    /\ pc' = "gm_return"
    /\ UNCHANGED <<i, console, backupInvoked>>
    /\ Step

\* mutant: the write of settings.json is not awaited
GM_return_notAwaited ==
    /\ pc = "gm_return" /\ ~err
    /\ pc' = "returned"
    /\ UNCHANGED <<i, pending, console, backupInvoked>>
    /\ Step

\* gemini.ts:50  the promise of writeGeminiBundle fulfils
GM_return ==
    /\ pc = "gm_return" /\ AwaitOk
    /\ pc' = "returned"
    /\ UNCHANGED <<i, pending, console, backupInvoked>>
    /\ Step

\* ---------------------------------------------------------------- errors
\* mutant: a failed call puts the files back as they were when it started
Throw_rollsBack ==
    /\ pc \notin {"idle", "returned", "threw", "gm_try"}
    /\ AwaitThrows
    /\ pc' = "threw"
    /\ fs' = fs0
    /\ UNCHANGED <<i, pending, console, backupInvoked>>
    /\ UNCHANGED <<fixed, dirs, clock, replaced, runs, bundle, err, locals, fs0, backupDone, failedOp>>

\* an awaited operation rejected outside a try block: the writer's promise
\* rejects with that error and the rest of the function does not run
Throw ==
    /\ pc \notin {"idle", "returned", "threw", "gm_try"}
    /\ AwaitThrows
    /\ pc' = "threw"
    /\ UNCHANGED <<i, pending, console, backupInvoked>>
    /\ Step

Next ==
    \/ writeOpenCodeBundle \/ OC_backupConfig \/ OC_writeConfig
    \/ OC_writeAgent \/ OC_agentsDone
    \/ OC_backupCommand \/ OC_writeCommand \/ OC_commandsDone
    \/ OC_writePlugin \/ OC_pluginsDone \/ OC_copySkill \/ OC_return
    \/ writeGeminiBundle \/ GM_writeSkill \/ GM_skillsDone
    \/ GM_copySkill \/ GM_skillDirsDone \/ GM_writeCommand \/ GM_commandsDone
    \/ GM_noServers \/ GM_backupSettings \/ GM_pathExists
    \/ GM_readJson \/ GM_skipRead \/ GM_readOk \/ GM_catch
    \/ GM_writeSettings \/ GM_return
    \/ EnsureDir \/ BackupFile \/ WriteFile \/ CopyDir \/ PathExists \/ ReadJson
    \/ Reject \/ Throw

Spec == Init /\ [][Next]_vars

\* ========================================================== the converter
\* claude-to-gemini.ts:164  the name an empty result falls back to
Item == <<"i", "t", "e", "m">>
\* the characters /[^a-z0-9_-]+/ matches, among the characters of the model
Unsafe == Chars \ (Lowercase \cup {Digits[k] : k \in 1..10} \cup {"_", "-"})

\* mutant: the name is trimmed and lower-cased, its characters are kept
normalizeName_kept(value) ==
    LET trimmed == trim(value) IN
    IF trimmed = <<>> THEN Item ELSE toLowerCase(trimmed)

\* claude-to-gemini.ts:162-173
normalizeName(value) ==
    LET trimmed == trim(value) IN
    IF trimmed = <<>> THEN Item
    ELSE LET lower   == toLowerCase(trimmed)
             slashes == replaceRuns(lower, {"/", "\\"})
             colons  == replaceRuns(slashes, {":"} \cup Whitespace)
             others  == replaceRuns(colons, Unsafe)
             dashes  == replaceRuns(others, {"-"})
             normalized == DropEnd(DropWhile(dashes, {"-"}), {"-"})
         IN  IF normalized = <<>> THEN Item ELSE normalized

\* claude-to-gemini.ts:183-194  the name returned and the set `used` afterwards
uniqueName(base, used) ==
    IF base \notin used THEN [name |-> base, used |-> used \cup {base}]
    ELSE LET candidate(n) == base \o <<"-">> \o numeral(n)
             index == CHOOSE n \in 2..(Cardinality(used) + 2) :
                          /\ candidate(n) \notin used
                          /\ \A m \in 2..(n - 1) : candidate(m) \in used
         IN  [name |-> candidate(index), used |-> used \cup {candidate(index)}]

\* mutant: the namespace separator is not honoured
resolveCommandPath_flat(name) == <<normalizeName(name)>>

\* claude-to-gemini.ts  resolveCommandPath: name.split(":").map(normalizeName)
resolveCommandPath(name) ==
    LET parts == split(name, ":") IN [k \in 1..Len(parts) |-> normalizeName(parts[k])]

\* claude-to-gemini.ts:61-77  the command's name and `usedNames` afterwards;
\* the value of uniqueName is dropped, the name is pathKey
convertCommand(command, usedNames) ==
    LET commandPath == resolveCommandPath(command)
        pathKey == join(commandPath, "/")
    IN  [name |-> pathKey, used |-> uniqueName(pathKey, usedNames).used]

\* claude-to-gemini.ts:40-41  the skill's name and `usedNames` afterwards
convertAgentToSkill(agent, usedNames) == uniqueName(normalizeName(agent), usedNames)

RECURSIVE mapAgents(_, _, _)
\* claude-to-gemini.ts:27  plugin.agents.map((agent) => convertAgentToSkill(agent, usedSkillNames))
mapAgents(agents, used, out) ==
    IF agents = <<>> THEN out
    ELSE LET r == convertAgentToSkill(Head(agents), used)
         IN  mapAgents(Tail(agents), r.used, Append(out, r.name))

RECURSIVE mapCommands(_, _, _)
\* claude-to-gemini.ts:29  plugin.commands.map((command) => convertCommand(command, usedCommandNames))
mapCommands(commands, used, out) ==
    IF commands = <<>> THEN out
    ELSE LET r == convertCommand(Head(commands), used)
         IN  mapCommands(Tail(commands), r.used, Append(out, r.name))

\* claude-to-gemini.ts:10-38  the names of the bundle convertClaudeToGemini returns
convertClaudeToGemini(p) ==
    LET skillDirs == p.skills
        usedSkillNames == {normalizeName(skillDirs[k]) : k \in 1..Len(skillDirs)}
    IN  [k |-> "bundle",
         generatedSkills |-> mapAgents(p.agents, usedSkillNames, <<>>),
         skillDirs |-> skillDirs,
         commands |-> mapCommands(p.commands, {}, <<>>)]

\* the plugins handed to the converter: names of the skills, agents and
\* commands the loader found, the names of one kind pairwise distinct
WorkflowsPlan == <<"w", "o", "r", "k", "f", "l", "o", "w", "s", ":", "p", "l", "a", "n">>
CommandNames == {<<"a">>, <<"a", ":", "a">>, WorkflowsPlan}
AgentNames == {<<"a">>, <<"a", "-", "2">>}
SkillNames == {<<"a">>, <<"A">>, <<"a", "-", "a">>}
\* the lists of one or two distinct names, one of them any name of at most
\* MaxNameLen characters, the other from the set given
NameLists(others) ==
    LET any == Strings(MaxNameLen) IN
    {<<n>> : n \in any}
        \cup {<<n, m>> : n \in any, m \in others} \cup {<<m, n>> : n \in any, m \in others}
Distinct(names) == \A a, b \in 1..Len(names) : a # b => names[a] # names[b]
Plugins ==
    {[skills |-> <<>>, agents |-> <<>>, commands |-> c] :
        c \in {l \in NameLists(CommandNames) : Distinct(l)}}
    \cup {[skills |-> sk, agents |-> a, commands |-> <<WorkflowsPlan>>] :
        sk \in {<<>>} \cup {<<n>> : n \in SkillNames},
        a \in {l \in NameLists(AgentNames) : Distinct(l)}}

\* commands/convert.ts:91  bundle = target.convert(plugin, options)
Convert ==
    /\ converted = NotConverted
    /\ converted' = convertClaudeToGemini(plugin)
    /\ UNCHANGED <<target, outputRoot, fs, dirs, clock, runs, pc, bundle, i, pending, err,
                   backupPath, settingsExists, existingSettings, console,
                   fs0, backupInvoked, backupDone, failedOp, replaced, plugin, cli>>

\* a plugin has been loaded, nothing written yet
InitConvert ==
    /\ target = "gemini"
    /\ outputRoot = <<"proj">>
    /\ fs = InitialFs(target, outputRoot, Absent, FALSE)
    /\ dirs = DirsOf(fs)
    /\ NoCall
    /\ plugin \in Plugins
    /\ converted = NotConverted
    /\ NoRun

NextConvert == Convert

SpecConvert == InitConvert /\ [][NextConvert]_vars

\* ================================================================ the CLI
\* commands/convert.ts and commands/install.ts: one run of `convert` or
\* `install`; the converters and writers are calls that return or throw
MaxAlso == 2
\* convert.ts:10
permissionModes == {"none", "broad", "from-commands"}
\* the registry as it is, and with a handler registered as not implemented
\* (TargetHandler.implemented)
Registries == {Registry, [Registry EXCEPT !["pi"].implemented = FALSE]}
\* --to values, entries of the --also list ("" is an empty entry: "a,,b")
ToNames == {"opencode", "gemini", "codex", "pi", "bogus"}
AlsoEntries == {"codex", "pi", "bogus", ""}
AlsoLists == UNION {[1..m -> AlsoEntries] : m \in 0..MaxAlso}
\* TargetHandler.convert returns a bundle or null; convertClaudeToGemini
\* always returns a bundle
ConvertResults(t) == IF t = "gemini" THEN {"bundle"} ELSE {"bundle", "null"}

\* everything but the state of the run
notCli == <<target, outputRoot, fs, dirs, clock, runs, pc, bundle, i, pending, err,
            backupPath, settingsExists, existingSettings, console,
            fs0, backupInvoked, backupDone, failedOp, replaced, plugin, converted>>
given == <<cliCommand, args, targets>>

\* convert.ts:127-133  parseExtraTargets: split on commas, trim, drop empty entries
parseExtraTargets(value) == SelectSeq(value, LAMBDA entry : entry # "")
extraTargets == parseExtraTargets(args.also)
\* convert.ts:100
allTargets == <<args.to>> \o extraTargets
\* the entry the loop is at
extra == extraTargets[extraIndex]

\* history: the run has done this
Log(evs) == trace' = trace \o evs
Ev(ev, t) == [ev |-> ev, t |-> t]

\* install.ts:82-128  the statements inside try { } finally { }
InTry == cliCommand = "install"
         /\ cliPc \in {"load", "convert", "primaryWrite", "extras", "extraWrite", "codex"}
\* an error is thrown: out of run, through install's finally block
Throws(msg) ==
    /\ caught' = msg
    /\ cliPc' = IF InTry THEN "finally" ELSE "failed"
\* run reaches its end
Exit == cliPc' = IF cliCommand = "install" THEN "finally" ELSE "done"

\* mutant: an unknown --to name is not rejected
CLI_unknownTarget_ignored ==
    /\ cliPc = "start"
    /\ args.to \notin DOMAIN targets
    /\ cliPc' = "permissions"
    /\ UNCHANGED <<given, extraIndex, tempRoot, writing, caught, trace, notCli>>

\* convert.ts:64-68  targets[targetName] is undefined
CLI_unknownTarget ==
    /\ cliPc = "start"
    /\ args.to \notin DOMAIN targets
    /\ Throws("Unknown target")
    /\ UNCHANGED <<given, extraIndex, tempRoot, writing, trace, notCli>>

\* convert.ts:70-72  registered but not implemented
CLI_notImplemented ==
    /\ cliPc = "start"
    /\ args.to \in DOMAIN targets /\ ~targets[args.to].implemented
    /\ Throws("registered but not implemented yet")
    /\ UNCHANGED <<given, extraIndex, tempRoot, writing, trace, notCli>>

\* convert.ts:64-74  the primary target has an implemented handler
CLI_targetOk ==
    /\ cliPc = "start"
    /\ args.to \in DOMAIN targets /\ targets[args.to].implemented
    /\ cliPc' = "permissions"
    /\ UNCHANGED <<given, extraIndex, tempRoot, writing, caught, trace, notCli>>

\* convert.ts:74-77
CLI_unknownPermissions ==
    /\ cliPc = "permissions"
    /\ args.permissions \notin permissionModes
    /\ Throws("Unknown permissions mode")
    /\ UNCHANGED <<given, extraIndex, tempRoot, writing, trace, notCli>>

\* mutant: the permissions mode is not validated
CLI_permissionsOk_unchecked ==
    /\ cliPc = "permissions"
    /\ cliPc' = IF cliCommand = "install" THEN "resolve" ELSE "load"
    /\ UNCHANGED <<given, extraIndex, tempRoot, writing, caught, trace, notCli>>

\* convert.ts:74-79, install.ts:75-80
CLI_permissionsOk ==
    /\ cliPc = "permissions"
    /\ args.permissions \in permissionModes
    /\ cliPc' = IF cliCommand = "install" THEN "resolve" ELSE "load"
    /\ UNCHANGED <<given, extraIndex, tempRoot, writing, caught, trace, notCli>>

\* install.ts:141-147  resolvePluginPath: a local path that exists
CLI_localPath ==
    /\ cliPc = "resolve" /\ args.plugin = "local"
    /\ cliPc' = "load"
    /\ UNCHANGED <<given, extraIndex, tempRoot, writing, caught, trace, notCli>>

\* install.ts:147  the local path does not exist
CLI_localMissing ==
    /\ cliPc = "resolve" /\ args.plugin = "local"
    /\ Throws("Local plugin path not found")
    /\ UNCHANGED <<given, extraIndex, tempRoot, writing, trace, notCli>>

\* install.ts:151,194  resolveGitHubPluginPath: fs.mkdtemp
CLI_mkdtemp ==
    /\ cliPc = "resolve" /\ args.plugin = "github"
    /\ tempRoot' = "created"
    /\ cliPc' = "clone"
    /\ Log(<<Ev("mkdtemp", None)>>)
    /\ UNCHANGED <<given, extraIndex, writing, caught, notCli>>

\* install.ts:197  git clone succeeded
CLI_cloned ==
    /\ cliPc = "clone"
    /\ cliPc' = "find"
    /\ Log(<<Ev("clone", None)>>)
    /\ UNCHANGED <<given, extraIndex, tempRoot, writing, caught, notCli>>

\* install.ts:198-201  git clone failed: remove the directory, rethrow
CLI_cloneFails ==
    /\ cliPc = "clone"
    /\ tempRoot' = "removed"
    /\ Throws("Failed to clone")
    /\ Log(<<Ev("clone", None), Ev("rm", None)>>)
    /\ UNCHANGED <<given, extraIndex, writing, notCli>>

\* install.ts:203-214  the plugin is in the clone: path and cleanup returned
CLI_pluginFound ==
    /\ cliPc = "find"
    /\ cliPc' = "load"
    /\ UNCHANGED <<given, extraIndex, tempRoot, writing, caught, trace, notCli>>

\* install.ts:204-207  the plugin is not in the clone: remove, throw
CLI_pluginMissing ==
    /\ cliPc = "find"
    /\ tempRoot' = "removed"
    /\ Throws("Could not find plugin")
    /\ Log(<<Ev("rm", None)>>)
    /\ UNCHANGED <<given, extraIndex, writing, notCli>>

\* convert.ts:79  loadClaudePlugin returned the plugin
CLI_loaded ==
    /\ cliPc = "load"
    /\ cliPc' = "convert"
    /\ Log(<<Ev("load", None)>>)
    /\ UNCHANGED <<given, extraIndex, tempRoot, writing, caught, notCli>>

\* convert.ts:79  loadClaudePlugin threw
CLI_loadFails ==
    /\ cliPc = "load"
    /\ Throws("load failed")
    /\ Log(<<Ev("load", None)>>)
    /\ UNCHANGED <<given, extraIndex, tempRoot, writing, notCli>>

\* mutant: target.write is called without `await`
CLI_writePrimary_notAwaited ==
    /\ cliPc = "convert"
    /\ "bundle" \in ConvertResults(args.to)
    /\ extraIndex' = 1
    /\ cliPc' = "extras"
    /\ Log(<<Ev("convert", args.to), Ev("write", args.to)>>)
    /\ UNCHANGED <<given, tempRoot, writing, caught, notCli>>

\* convert.ts:90-96  target.convert returned a bundle: target.write is called
CLI_writePrimary ==
    /\ cliPc = "convert"
    /\ "bundle" \in ConvertResults(args.to)
    /\ writing' = args.to
    /\ cliPc' = "primaryWrite"
    /\ Log(<<Ev("convert", args.to), Ev("write", args.to)>>)
    /\ UNCHANGED <<given, extraIndex, tempRoot, caught, notCli>>

\* convert.ts:91-94  target.convert returned null
CLI_noBundle ==
    /\ cliPc = "convert"
    /\ "null" \in ConvertResults(args.to)
    /\ Throws("did not return a bundle")
    /\ Log(<<Ev("convert", args.to)>>)
    /\ UNCHANGED <<given, extraIndex, tempRoot, writing, notCli>>

\* convert.ts:96-99  `await target.write` returned: log, parse --also
CLI_primaryWritten ==
    /\ cliPc = "primaryWrite"
    /\ writing' = None
    /\ extraIndex' = 1
    /\ cliPc' = "extras"
    /\ Log(<<Ev("returned", args.to), Ev("log", args.to)>>)
    /\ UNCHANGED <<given, tempRoot, caught, notCli>>

\* convert.ts:96,117  the awaited write rejected
CLI_writeThrows ==
    /\ cliPc \in {"primaryWrite", "extraWrite"}
    /\ writing' = None
    /\ Throws("write failed")
    /\ Log(<<Ev("threw", writing)>>)
    /\ UNCHANGED <<given, extraIndex, tempRoot, notCli>>

\* mutant: an unknown --also entry ends the run
CLI_skipUnknown_throws ==
    /\ cliPc = "extras" /\ extraIndex <= Len(extraTargets)
    /\ extra \notin DOMAIN targets
    /\ Throws("Unknown target")
    /\ Log(<<Ev("warn", extra)>>)
    /\ UNCHANGED <<given, extraIndex, tempRoot, writing, notCli>>

\* convert.ts:102-106  no handler for the --also entry: warn, continue
CLI_skipUnknown ==
    /\ cliPc = "extras" /\ extraIndex <= Len(extraTargets)
    /\ extra \notin DOMAIN targets
    /\ extraIndex' = extraIndex + 1
    /\ Log(<<Ev("warn", extra)>>)
    /\ UNCHANGED <<given, cliPc, tempRoot, writing, caught, notCli>>

\* convert.ts:107-110  the handler is not implemented: warn, continue
CLI_skipUnimplemented ==
    /\ cliPc = "extras" /\ extraIndex <= Len(extraTargets)
    /\ extra \in DOMAIN targets /\ ~targets[extra].implemented
    /\ extraIndex' = extraIndex + 1
    /\ Log(<<Ev("warn", extra)>>)
    /\ UNCHANGED <<given, cliPc, tempRoot, writing, caught, notCli>>

\* convert.ts:111-115  handler.convert returned null: warn, continue
CLI_skipNoBundle ==
    /\ cliPc = "extras" /\ extraIndex <= Len(extraTargets)
    /\ extra \in DOMAIN targets /\ targets[extra].implemented
    /\ "null" \in ConvertResults(extra)
    /\ extraIndex' = extraIndex + 1
    /\ Log(<<Ev("convert", extra), Ev("warn", extra)>>)
    /\ UNCHANGED <<given, cliPc, tempRoot, writing, caught, notCli>>

\* convert.ts:111-117  handler.convert returned a bundle: handler.write is called
CLI_writeExtra ==
    /\ cliPc = "extras" /\ extraIndex <= Len(extraTargets)
    /\ extra \in DOMAIN targets /\ targets[extra].implemented
    /\ "bundle" \in ConvertResults(extra)
    /\ writing' = extra
    /\ cliPc' = "extraWrite"
    /\ Log(<<Ev("convert", extra), Ev("write", extra)>>)
    /\ UNCHANGED <<given, extraIndex, tempRoot, caught, notCli>>

\* convert.ts:117-119  `await handler.write` returned: log, next entry
CLI_extraWritten ==
    /\ cliPc = "extraWrite"
    /\ writing' = None
    /\ extraIndex' = extraIndex + 1
    /\ cliPc' = "extras"
    /\ Log(<<Ev("returned", extra), Ev("log", extra)>>)
    /\ UNCHANGED <<given, tempRoot, caught, notCli>>

\* convert.ts:121-123  codex is among the targets: ensureCodexAgentsFile is called
CLI_ensureCodexAgentsFile ==
    /\ cliPc = "extras" /\ extraIndex > Len(extraTargets)
    /\ \E n \in 1..Len(allTargets) : allTargets[n] = "codex"
    /\ cliPc' = "codex"
    /\ Log(<<Ev("ensureCodexAgentsFile", None)>>)
    /\ UNCHANGED <<given, extraIndex, tempRoot, writing, caught, notCli>>

\* mutant: the run may end without looking for codex among the targets
CLI_noCodex_unchecked ==
    /\ cliPc = "extras" /\ extraIndex > Len(extraTargets)
    /\ Exit
    /\ UNCHANGED <<given, extraIndex, tempRoot, writing, caught, trace, notCli>>

\* convert.ts:121-124  codex is not among the targets: run ends
CLI_noCodex ==
    /\ cliPc = "extras" /\ extraIndex > Len(extraTargets)
    /\ \A n \in 1..Len(allTargets) : allTargets[n] # "codex"
    /\ Exit
    /\ UNCHANGED <<given, extraIndex, tempRoot, writing, caught, trace, notCli>>

\* convert.ts:122-124  ensureCodexAgentsFile returned: run ends
CLI_codexDone ==
    /\ cliPc = "codex"
    /\ Exit
    /\ UNCHANGED <<given, extraIndex, tempRoot, writing, caught, trace, notCli>>

\* convert.ts:122  ensureCodexAgentsFile threw
CLI_codexFails ==
    /\ cliPc = "codex"
    /\ Throws("ensureCodexAgentsFile failed")
    /\ UNCHANGED <<given, extraIndex, tempRoot, writing, trace, notCli>>

\* mutant: the finally block does not call cleanup
CLI_finally_noCleanup ==
    /\ cliPc = "finally"
    /\ cliPc' = IF caught = None THEN "done" ELSE "failed"
    /\ UNCHANGED <<given, extraIndex, tempRoot, writing, caught, trace, notCli>>

\* install.ts:128-132  finally: cleanup removes the clone; the error, if
\* any, goes on to the caller
CLI_finally ==
    /\ cliPc = "finally"
    /\ IF tempRoot = "created"
       THEN tempRoot' = "removed" /\ Log(<<Ev("rm", None)>>)
       ELSE UNCHANGED <<tempRoot, trace>>
    /\ cliPc' = IF caught = None THEN "done" ELSE "failed"
    /\ UNCHANGED <<given, extraIndex, writing, caught, notCli>>

\* a run of convert or install starts with its arguments parsed
InitCli ==
    /\ target = "gemini"
    /\ outputRoot = <<"proj">>
    /\ fs = InitialFs(target, outputRoot, Absent, FALSE)
    /\ dirs = DirsOf(fs)
    /\ NoCall
    /\ plugin = NoPlugin
    /\ converted = NotConverted
    /\ cliCommand \in {"convert", "install"}
    /\ args \in [to : ToNames, also : AlsoLists, permissions : {"broad", "bogus"},
                  plugin : IF cliCommand = "install" THEN {"local", "github"} ELSE {"local"}]
    /\ targets \in Registries
    /\ cliPc = "start"
    /\ extraIndex = 1
    /\ tempRoot = None
    /\ writing = None
    /\ caught = None
    /\ trace = <<>>

NextCli ==
    \/ CLI_unknownTarget \/ CLI_notImplemented \/ CLI_targetOk
    \/ CLI_unknownPermissions \/ CLI_permissionsOk
    \/ CLI_localPath \/ CLI_localMissing \/ CLI_mkdtemp \/ CLI_cloned \/ CLI_cloneFails
    \/ CLI_pluginFound \/ CLI_pluginMissing
    \/ CLI_loaded \/ CLI_loadFails \/ CLI_writePrimary \/ CLI_noBundle
    \/ CLI_primaryWritten \/ CLI_writeThrows
    \/ CLI_skipUnknown \/ CLI_skipUnimplemented \/ CLI_skipNoBundle
    \/ CLI_writeExtra \/ CLI_extraWritten
    \/ CLI_ensureCodexAgentsFile \/ CLI_noCodex \/ CLI_codexDone \/ CLI_codexFails
    \/ CLI_finally

SpecCli == InitCli /\ [][NextCli]_vars

\* ================================================================ claims
\* the object a settings.json / opencode.json held when the call started
existingAtStart == fs0[configFile].obj
\* the config file was there when the call started and parsed as JSON
ExistingParses == configFile \in DOMAIN fs0 /\ fs0[configFile].type = "json"
\* the object the config file holds now
written == fs[configFile].obj
\* the fields of sub-object m of JSON object o; none if m is missing or not an object
Fields(o, m) == IF m \in DOMAIN o /\ o[m].k = "obj" THEN o[m].f ELSE EmptyObj
\* a writeGeminiBundle call with servers to merge has returned
GeminiMerged == target = "gemini" /\ pc = "returned" /\ HasServers(bundle)
\* a writeOpenCodeBundle call has returned
OpenCodeWritten == target = "opencode" /\ pc = "returned"

\* C1: writeGeminiBundle, settings.json exists and parses: a server name that
\* is both in the existing mcpServers and in bundle.mcpServers keeps the
\* existing on-disk value in the written file.
C1_GeminiUserWins ==
    (GeminiMerged /\ ExistingParses) =>
        \A n \in DOMAIN Fields(existingAtStart, "mcpServers") \cap DOMAIN bundle.mcpServers.f :
            Fields(written, "mcpServers")[n] = Fields(existingAtStart, "mcpServers")[n]

\* C2: writeOpenCodeBundle, opencode.json exists and parses: for each of mcp,
\* permission and tools, every field of the existing sub-object keeps its
\* on-disk value in the written file and fields only in bundle.config's
\* sub-object are added.
C2_OpenCodeUserWins ==
    (OpenCodeWritten /\ ExistingParses) =>
        \A m \in {"mcp", "permission", "tools"} :
            /\ \A n \in DOMAIN Fields(existingAtStart, m) :
                  /\ n \in DOMAIN Fields(written, m)
                  /\ Fields(written, m)[n] = Fields(existingAtStart, m)[n]
            /\ \A n \in DOMAIN Fields(bundle.config, m) \ DOMAIN Fields(existingAtStart, m) :
                  /\ n \in DOMAIN Fields(written, m)
                  /\ Fields(written, m)[n] = Fields(bundle.config, m)[n]

\* C3: writeOpenCodeBundle: a top-level key of the existing, parseable
\* opencode.json that bundle.config does not have is still in opencode.json,
\* with its old value, after the write.
C3_OpenCodeKeepsTopLevelKeys ==
    (OpenCodeWritten /\ ExistingParses) =>
        \A k \in DOMAIN existingAtStart \ DOMAIN bundle.config :
            k \in DOMAIN written /\ written[k] = existingAtStart[k]

\* C4: writeGeminiBundle changes only the mcpServers key of an existing,
\* parseable settings.json: every other top-level key is there with its old
\* value after the call and no other top-level key is introduced.
C4_GeminiOnlyMcpServersChanges ==
    (target = "gemini" /\ pc = "returned" /\ ExistingParses) =>
        /\ configFile \in DOMAIN fs /\ fs[configFile].type = "json"
        /\ \A k \in DOMAIN existingAtStart \ {"mcpServers"} :
              k \in DOMAIN written /\ written[k] = existingAtStart[k]
        /\ DOMAIN written \subseteq DOMAIN existingAtStart \cup {"mcpServers"}

\* C4 witness: a merge has rewritten a settings.json that has a model key
C4_Witness ==
    /\ GeminiMerged /\ ExistingParses
    /\ "model" \in DOMAIN existingAtStart
    /\ fs[configFile] # fs0[configFile]

\* the existing file's mcpServers is a JSON array: it has no server names,
\* yet the spread of gemini.ts:47 copies its indices (see C24)
ArrayServers ==
    "mcpServers" \in DOMAIN existingAtStart /\ existingAtStart.mcpServers.k = "arr"

Writes == {"writeJson", "writeText"}
\* the backup files of p made since the call started
NewBackups(p) == {q \in DOMAIN fs \ DOMAIN fs0 : q.bak > 0 /\ [q EXCEPT !.bak = 0] = p}
\* exactly one new backup of p, holding what p held when the call started
OneBackup(p) == Cardinality(NewBackups(p)) = 1 /\ \A q \in NewBackups(p) : fs[q] = fs0[p]

\* C6: backup-before-overwrite for opencode.json, an OpenCode command .md
\* and settings.json: the destination held A before the call and the call
\* wrote B; after the call exactly one new <original>.bak.<timestamp> exists
\* and holds A, and the destination holds B.
C6_BackupBeforeOverwrite ==
    pc = "returned" =>
        /\ (target = "opencode" /\ configFile \in DOMAIN fs0) =>
              OneBackup(configFile) /\ fs[configFile] = JsonFile(bundle.config)
        /\ target = "opencode" =>
              \A j \in 1..Len(bundle.commandFiles) :
                  commandDest(j) \in DOMAIN fs0 =>
                      /\ OneBackup(commandDest(j))
                      /\ fs[commandDest(j)] = TextFile(bundle.commandFiles[j].content \o <<"\n">>)
        /\ (target = "gemini" /\ HasServers(bundle) /\ configFile \in DOMAIN fs0) =>
              /\ OneBackup(configFile)
              /\ fs[configFile].type = "json"
              /\ \A n \in DOMAIN bundle.mcpServers.f :
                    /\ n \in DOMAIN Fields(written, "mcpServers")
                    /\ Fields(written, "mcpServers")[n] = bundle.mcpServers.f[n]

\* C6 witness: a returned call replaced an existing opencode.json and an
\* existing command file by other content
C6_Witness ==
    /\ OpenCodeWritten
    /\ configFile \in DOMAIN fs0 /\ fs[configFile] # fs0[configFile]
    /\ Len(bundle.commandFiles) > 0
    /\ commandDest(1) \in DOMAIN fs0 /\ fs[commandDest(1)] # fs0[commandDest(1)]

\* the writes that fulfil in this step
FulfilledWrites ==
    {op \in pending : op \notin pending' /\ op.kind \in Writes /\ failedOp' = failedOp}
\* a backup of what p held when the call started has been made in this call
BackedUp(p) == \E q \in NewBackups(p) : fs[q] = fs0[p]
\* the destinations the writers hand to backupFile: the config file and the
\* OpenCode command .md files
BackedUpKind(p) ==
    \/ p = configFile
    \/ target = "opencode" /\ p.dir = openCodePaths.commandDir /\ p.ext = ".md"

C8_BackupCompletesBeforeWrite ==
    [][\A op \in pending' \ pending :
          /\ (op.kind \in Writes /\ op.path \in backupInvoked) =>
                 op.path \in backupDone /\ backupFile(op.path) \notin pending'
          /\ op.kind = "backupFile" =>
                 /\ \A w \in pending : ~(w.kind \in Writes /\ w.path = op.path)
                 /\ op.path \in DOMAIN fs => (op.path \in DOMAIN fs0 /\ fs[op.path] = fs0[op.path])
      ]_vars

\* C8 witness: the write to an existing destination is in flight, its backup made
C8_Witness ==
    \E op \in pending :
        op.kind \in Writes /\ op.path \in backupDone /\ op.path \in DOMAIN fs0
                           /\ NewBackups(op.path) # {}

\* C9: once the backup of a destination has failed, the call does not return
\* normally, issues no further operation, and the destination keeps the
\* content it had.
C9_FailedBackupStopsWrite ==
    \A op \in failedOp :
        op.kind = "backupFile" =>
            /\ pc # "returned"
            /\ pending = {}
            /\ op.path \in DOMAIN fs <=> op.path \in DOMAIN fs0
            /\ op.path \in DOMAIN fs0 => fs[op.path] = fs0[op.path]

\* C9 witness: the call has failed on the backup of an existing destination
C9_Witness ==
    /\ pc = "threw"
    /\ \E op \in failedOp : op.kind = "backupFile" /\ op.path \in DOMAIN fs0

\* all backup files of the config file
ConfigBackups == {q \in DOMAIN fs : q.bak > 0 /\ [q EXCEPT !.bak = 0] = configFile}

\* C10: after k overwrites of the existing config file there are k distinct
\* backup files, one holding each content the file had just before an
\* overwrite (so no backup has replaced an earlier one).
C10_DistinctBackups ==
    \E f \in [1..Len(replaced) -> ConfigBackups] :
        /\ \A a, b \in 1..Len(replaced) : a # b => f[a] # f[b]
        /\ \A a \in 1..Len(replaced) : fs[f[a]] = replaced[a]

\* C10 witness: the config file has been overwritten twice, with different
\* contents lost
C10_Witness ==
    /\ Len(replaced) >= 2
    /\ replaced[1] # replaced[2]
    /\ Cardinality(ConfigBackups) >= 2

\* the warning gemini.ts:40 prints
ParseWarning == "Warning: existing settings.json could not be parsed"
\* settings.json was there when the call started and did not parse, and the
\* bundle has MCP servers
MalformedSettings ==
    /\ target = "gemini" /\ pc # "idle" /\ HasServers(bundle)
    /\ configFile \in DOMAIN fs0 /\ fs0[configFile].type # "json"

\* C11: malformed-JSON fallback of writeGeminiBundle: settings.json exists
\* but does not parse and the bundle has MCP servers; then the parse failure
\* does not fail the call (a failed call has a rejected file-system
\* operation other than the read), the unparseable original is backed up
\* before the file is written, and the returned call has warned and left
\* exactly {mcpServers: bundle.mcpServers} in the file.
C11_MalformedJsonFallback ==
    MalformedSettings =>
        /\ pc = "threw" => \E op \in failedOp : op.kind # "readJson"
        /\ fs[configFile] # fs0[configFile] => OneBackup(configFile)
        /\ pc = "returned" =>
              /\ ParseWarning \in console
              /\ OneBackup(configFile)
              /\ fs[configFile] = JsonFile([k \in {"mcpServers"} |-> bundle.mcpServers])

\* C11 witness: a call that found an unparseable settings.json has returned
C11_Witness ==
    /\ MalformedSettings /\ pc = "returned"
    /\ readJson(configFile) \in failedOp
    /\ fs[configFile].type = "json"

\* the files the running (or last) call has created or changed
Created == {p \in DOMAIN fs : p \notin DOMAIN fs0 \/ fs[p] # fs0[p]}
\* the canonical dot-directory of the target
DotDir == IF target = "opencode" THEN ".opencode" ELSE ".gemini"
\* the output root is itself the target's canonical directory
CanonicalRoot ==
    IF target = "opencode" THEN basename(outputRoot) \in {"opencode", ".opencode"}
    ELSE basename(outputRoot) = ".gemini"
\* the directories a canonical root holds the artifacts in
ArtifactDirs == {"agents", "commands", "skills", "plugins"}
\* p is the config file under the root or lies in one of <root>/agents,
\* <root>/commands, <root>/skills, <root>/plugins
DirectlyUnder(p, root) ==
    \/ p.dir = root /\ [p EXCEPT !.bak = 0] = configFile
    \/ /\ Len(p.dir) > Len(root) /\ IsUnder(p.dir, root)
       /\ p.dir[Len(root) + 1] \in ArtifactDirs

\* C12: no double nesting: with an output root called ".gemini" (Gemini),
\* ".opencode" or "opencode" (OpenCode), every file the writer creates is the
\* config file <root>/<config> or lies in <root>/agents, <root>/commands,
\* <root>/skills (or <root>/plugins), and no directory <root>/.gemini or
\* <root>/.opencode exists.
C12_NoDoubleNesting ==
    CanonicalRoot =>
        /\ \A p \in Created : DirectlyUnder(p, outputRoot)
        /\ \A op \in pending : op.kind \in Writes => DirectlyUnder(op.path, outputRoot)
        /\ \A d \in dirs : ~IsUnder(d, outputRoot \o <<".gemini">>)
                          /\ ~IsUnder(d, outputRoot \o <<".opencode">>)

\* C12 witness: a call into a .gemini root has returned with a settings.json,
\* a generated skill, a copied skill and a command written
C12_Witness ==
    /\ target = "gemini" /\ CanonicalRoot /\ pc = "returned"
    /\ configFile \in Created
    /\ \E p \in Created : p.dir = outputRoot \o <<"commands", "workflows">>
    /\ Cardinality({p \in Created : IsUnder(p.dir, outputRoot \o <<"skills">>)}) >= 2

\* C13 as stated: with an output root not called like the canonical
\* directory, everything the writer creates, the config file included, lies
\* under <root>/.opencode (OpenCode) or <root>/.gemini (Gemini).
C13_AllUnderDotDir ==
    ~CanonicalRoot => \A p \in Created : IsUnder(p.dir, outputRoot \o <<DotDir>>)

\* C13 amended: with such a root, everything writeGeminiBundle creates,
\* settings.json included, lies under <root>/.gemini; everything
\* writeOpenCodeBundle creates lies under <root>/.opencode, except
\* opencode.json and its backups, which are at <root>/opencode.json.
C13_NestedExceptOpenCodeConfig ==
    ~CanonicalRoot =>
        /\ \A p \in Created :
              \/ IsUnder(p.dir, outputRoot \o <<DotDir>>)
              \/ target = "opencode" /\ [p EXCEPT !.bak = 0] = File(outputRoot, "opencode", ".json")
        /\ pc = "returned" /\ target = "opencode" => configFile.dir = outputRoot /\ configFile \in DOMAIN fs
        /\ \A d \in dirs \ DirsOf(fs0) : IsUnder(d, outputRoot \o <<DotDir>>) \/ d \in Prefixes(outputRoot)

\* C13 witness: a call of writeOpenCodeBundle into a root called "proj" has
\* returned with opencode.json and the four kinds of artifact written
C13_Witness ==
    /\ target = "opencode" /\ ~CanonicalRoot /\ pc = "returned"
    /\ configFile \in Created
    /\ \A d \in ArtifactDirs :
          \E p \in Created : IsUnder(p.dir, outputRoot \o <<".opencode", d>>)

\* a Gemini bundle with no generated skill, no skill directory, no command
\* and no mcpServers
EmptyGeminiBundle ==
    /\ target = "gemini" /\ pc # "idle"
    /\ bundle.generatedSkills = <<>> /\ bundle.skillDirs = <<>> /\ bundle.commands = <<>>
    /\ bundle.mcpServers = NoServers

\* C14: writeGeminiBundle with an empty bundle is a no-op: it issues nothing
\* but the ensureDir of the root directory, so it cannot fail on anything
\* else; it changes and creates no file (no config file, no backup, no
\* marker file), and when it has returned the root directory exists.
C14_EmptyBundleNoOp ==
    EmptyGeminiBundle =>
        /\ fs = fs0
        /\ \A op \in pending \cup failedOp : op = ensureDir(paths.geminiDir)
        /\ pc = "returned" => paths.geminiDir \in dirs /\ failedOp = {}

\* C14 witness: the call with the empty bundle has returned and has created
\* the root directory, which no file needed before
C14_Witness ==
    /\ EmptyGeminiBundle /\ pc = "returned"
    /\ paths.geminiDir \notin DirsOf(fs0)
    /\ paths.geminiDir \in dirs

\* the operations in flight that belong to the config step: backup, read
\* and write of the config file
ConfigOps == {op \in pending : op.path = configFile}
\* the operations in flight that write artifacts (or back a command file up)
ArtifactOps == {op \in pending : op.kind # "ensureDir" /\ op.path # configFile}
\* the directory the writer creates first
RootDir == IF target = "opencode" THEN openCodePaths.root ELSE paths.geminiDir
\* the call has a config object to write
HasConfig == target = "opencode" \/ HasServers(bundle)
\* the call has written its config object into the config file
ConfigWritten ==
    /\ configFile \in DOMAIN fs /\ fs[configFile].type = "json"
    /\ IF target = "opencode" THEN written = bundle.config
       ELSE \A n \in DOMAIN bundle.mcpServers.f :
               /\ n \in DOMAIN Fields(written, "mcpServers")
               /\ Fields(written, "mcpServers")[n] = bundle.mcpServers.f[n]
\* the call has not touched the config file
ConfigUntouched ==
    /\ NewBackups(configFile) = {}
    /\ configFile \in DOMAIN fs <=> configFile \in DOMAIN fs0
    /\ configFile \in DOMAIN fs => fs[configFile] = fs0[configFile]
\* the call has created or changed no artifact
ArtifactsUntouched == \A p \in Created : [p EXCEPT !.bak = 0] = configFile
\* every artifact of the Gemini bundle is on disk
GeminiArtifactsWritten ==
    /\ \A j \in 1..Len(bundle.generatedSkills) :
          LET p == File(paths.skillsDir \o <<bundle.generatedSkills[j].name>>, "SKILL", ".md")
          IN  p \in DOMAIN fs /\ fs[p] = TextFile(bundle.generatedSkills[j].content \o <<"\n">>)
    /\ \A j \in 1..Len(bundle.skillDirs) :
          LET c == Copied(bundle.skillDirs[j].sourceDir, paths.skillsDir \o <<bundle.skillDirs[j].name>>)
          IN  \A p \in DOMAIN c : p \in DOMAIN fs /\ fs[p] = c[p]
    /\ \A j \in 1..Len(bundle.commands) :
          LET p == commandToml(bundle.commands[j].name)
          IN  p \in DOMAIN fs /\ fs[p] = TextFile(bundle.commands[j].content \o <<"\n">>)

\* C18 as stated: in every writer call with a config object, the config
\* step (backup, merge, write of the config file) comes after the root
\* directory is created and before the first artifact is written.
C18_ConfigBeforeArtifacts ==
    /\ ConfigOps # {} => RootDir \in dirs /\ ArtifactsUntouched
    /\ (ArtifactOps # {} /\ HasConfig) => RootDir \in dirs /\ ConfigWritten

\* C18 amended: writeOpenCodeBundle creates the root directory, then backs
\* up and writes opencode.json, then writes the artifacts;
\* writeGeminiBundle creates the root directory, then writes all artifacts,
\* and backs up, merges and writes settings.json last.
C18_ConfigStepOrder ==
    IF target = "opencode"
    THEN /\ ConfigOps # {} => RootDir \in dirs /\ ArtifactsUntouched
         /\ ArtifactOps # {} => RootDir \in dirs /\ ConfigWritten
    ELSE /\ ConfigOps # {} => RootDir \in dirs /\ GeminiArtifactsWritten
         /\ ArtifactOps # {} => RootDir \in dirs /\ ConfigUntouched

\* C18 witness: writeGeminiBundle is writing settings.json, its three
\* artifacts already changed on disk
C18_Witness ==
    /\ target = "gemini"
    /\ \E op \in ConfigOps : op.kind = "writeJson"
    /\ Cardinality(Created \ {configFile}) >= 3
    /\ GeminiArtifactsWritten

\* a directory creation, backup, write or copy of the call has failed
FsFailed == \E op \in failedOp : op.kind # "readJson"
\* the failed operation wrote (or backed up) an artifact
ArtifactFailed == \E op \in failedOp : op.kind \notin {"readJson", "ensureDir"} /\ op.path # configFile

\* C19: once a directory creation, backup, write or copy of a writer call
\* has failed, the call issues no further operation and changes no file, it
\* ends by throwing and never returns normally, and what it wrote before the
\* failure stays as written: the config file of an OpenCode call that failed
\* on an artifact, the artifacts of a Gemini call that failed on settings.json.
C19_StateAfterFailure ==
    FsFailed =>
        /\ pending = {} /\ pc # "returned"
        /\ pc = "threw" =>
              /\ (target = "opencode" /\ ArtifactFailed) => ConfigWritten
              /\ (target = "gemini" /\ ~ArtifactFailed /\ failedOp # {ensureDir(RootDir)})
                    => GeminiArtifactsWritten
C19_NoStepAfterFailure ==
    [][(FsFailed /\ runs' = runs) => (pc' = "threw" /\ pending' = {} /\ fs' = fs /\ dirs' = dirs)]_vars
C19_FirstErrorAborts == []C19_StateAfterFailure /\ C19_NoStepAfterFailure

\* C19 witness: writeOpenCodeBundle has thrown on an artifact after it had
\* replaced opencode.json, which keeps its new content
C19_Witness ==
    /\ target = "opencode" /\ pc = "threw" /\ ArtifactFailed
    /\ configFile \in DOMAIN fs0 /\ fs[configFile] # fs0[configFile]
    /\ ConfigWritten

\* every artifact of the OpenCode bundle is on disk
OpenCodeArtifactsWritten ==
    /\ \A j \in 1..Len(bundle.agents) :
          LET p == File(openCodePaths.agentsDir, bundle.agents[j].name, ".md")
          IN  p \in DOMAIN fs /\ fs[p] = TextFile(bundle.agents[j].content \o <<"\n">>)
    /\ \A j \in 1..Len(bundle.commandFiles) :
          /\ commandDest(j) \in DOMAIN fs
          /\ fs[commandDest(j)] = TextFile(bundle.commandFiles[j].content \o <<"\n">>)
    /\ \A j \in 1..Len(bundle.plugins) :
          LET p == File(openCodePaths.pluginsDir, bundle.plugins[j].name, "")
          IN  p \in DOMAIN fs /\ fs[p] = TextFile(bundle.plugins[j].content \o <<"\n">>)
    /\ \A j \in 1..Len(bundle.skillDirs) :
          LET c == Copied(bundle.skillDirs[j].sourceDir,
                          openCodePaths.skillsDir \o <<bundle.skillDirs[j].name>>)
          IN  \A p \in DOMAIN c : p \in DOMAIN fs /\ fs[p] = c[p]

\* C20: when a writer call has returned, no operation it issued is still
\* in flight and none has failed: the config object and every artifact of
\* the bundle are on disk; and after the return nothing is issued or
\* written until the next call starts.
C20_WritesDoneAtReturn ==
    pc = "returned" =>
        /\ pending = {} /\ failedOp \subseteq {readJson(configFile)}
        /\ RootDir \in dirs
        /\ HasConfig => ConfigWritten
        /\ IF target = "opencode" THEN OpenCodeArtifactsWritten ELSE GeminiArtifactsWritten
C20_NothingAfterReturn ==
    [][(pc = "returned" /\ runs' = runs) => (pending' = {} /\ fs' = fs /\ dirs' = dirs)]_vars
C20_CompletionOnReturn == []C20_WritesDoneAtReturn /\ C20_NothingAfterReturn

\* C20 witness: writeGeminiBundle has returned from a call that wrote three
\* artifacts and settings.json
C20_Witness ==
    /\ target = "gemini" /\ pc = "returned"
    /\ Len(bundle.commands) > 0 /\ HasServers(bundle)
    /\ configFile \in Created
    /\ Cardinality(Created) >= 4

\* the directory the writer resolves the files of each artifact kind against
\* (opencode.ts:15-41, gemini.ts:9-25)
KindDirs ==
    IF target = "opencode"
    THEN [agents       |-> openCodePaths.agentsDir,
          commandFiles |-> openCodePaths.commandDir,
          plugins      |-> openCodePaths.pluginsDir,
          skillDirs    |-> openCodePaths.skillsDir]
    ELSE [generatedSkills |-> paths.skillsDir,
          skillDirs       |-> paths.skillsDir,
          commands        |-> paths.commandsDir]
\* two directories neither of which is, or lies in, the other
Apart(a, b) == ~IsUnder(a, b) /\ ~IsUnder(b, a)
\* the directory an operation in flight puts its files into
OpDir(op) == IF op.kind = "copyDir" THEN op.dir ELSE op.path.dir

\* C22 as stated: no two artifact kinds of a target resolve to the same
\* directory (Gemini: generated skills, pass-through skill directories,
\* commands; OpenCode: agents, command files, plugins, skill directories).
C22_EveryKindOwnDirectory ==
    \A a, b \in DOMAIN KindDirs : a # b => KindDirs[a] # KindDirs[b]

\* C22 amended: the four OpenCode kinds resolve to four directories apart
\* from each other; for Gemini the commands directory is apart from the
\* skills directory, which generated skills and pass-through skill
\* directories share, each skill in its own subdirectory <skillsDir>/<name>;
\* every artifact operation puts its file below the directory of its kind.
C22_KindDirectories ==
    /\ target = "opencode" =>
          \A a, b \in DOMAIN KindDirs : a # b => Apart(KindDirs[a], KindDirs[b])
    /\ target = "gemini" =>
          /\ Apart(KindDirs.commands, KindDirs.generatedSkills)
          /\ KindDirs.generatedSkills = KindDirs.skillDirs
    /\ \A op \in ArtifactOps :
          /\ Cardinality({d \in {KindDirs[a] : a \in DOMAIN KindDirs} : IsUnder(OpDir(op), d)}) = 1
          /\ (target = "gemini" /\ IsUnder(OpDir(op), paths.skillsDir)) =>
                Len(OpDir(op)) = Len(paths.skillsDir) + 1

\* C22 witness: writeGeminiBundle copies a skill directory into the skills
\* directory that already holds the generated skill it has just written
C22_Witness ==
    /\ target = "gemini"
    /\ \E op \in pending :
          /\ op.kind = "copyDir" /\ IsUnder(op.dir, paths.skillsDir)
          /\ \E p \in Created : IsUnder(p.dir, paths.skillsDir) /\ Apart(p.dir, op.dir)

\* the named text artifacts of the bundle: where each goes, what it holds
TextArtifacts ==
    IF target = "opencode"
    THEN {[path |-> File(openCodePaths.agentsDir, bundle.agents[j].name, ".md"),
           content |-> bundle.agents[j].content] : j \in 1..Len(bundle.agents)}
         \cup {[path |-> commandDest(j),
                content |-> bundle.commandFiles[j].content] : j \in 1..Len(bundle.commandFiles)}
         \cup {[path |-> File(openCodePaths.pluginsDir, bundle.plugins[j].name, ""),
                content |-> bundle.plugins[j].content] : j \in 1..Len(bundle.plugins)}
    ELSE {[path |-> File(paths.skillsDir \o <<bundle.generatedSkills[j].name>>, "SKILL", ".md"),
           content |-> bundle.generatedSkills[j].content] : j \in 1..Len(bundle.generatedSkills)}
         \cup {[path |-> commandToml(bundle.commands[j].name),
                content |-> bundle.commands[j].content] : j \in 1..Len(bundle.commands)}
\* the text is the content followed by one newline
WithNewline(file, content) ==
    /\ file.type = "text"
    /\ Len(file.body) = Len(content) + 1
    /\ SubSeq(file.body, 1, Len(content)) = content
    /\ file.body[Len(file.body)] = "\n"

\* C23: every named text artifact (OpenCode agents, command files, plugins;
\* Gemini generated SKILL.md and command .toml) is written as exactly its
\* bundle content followed by one "\n": every writeText in flight carries
\* that text, and when the call has returned every such file holds it.
C23_TrailingNewline ==
    /\ \A op \in pending : op.kind = "writeText" =>
          \E a \in TextArtifacts : op.path = a.path /\ WithNewline(op.content, a.content)
    /\ pc = "returned" =>
          \A a \in TextArtifacts : a.path \in DOMAIN fs /\ WithNewline(fs[a.path], a.content)

\* C23 witness: a Gemini command whose content already ends in a newline
\* has been written, and its file ends in two
C23_Witness ==
    /\ pc = "returned" /\ target = "gemini"
    /\ \E a \in TextArtifacts :
          /\ a.content[Len(a.content)] = "\n"
          /\ fs[a.path].body = a.content \o <<"\n">>
          /\ a.path \notin DOMAIN fs0

\* settings.json parsed at the start of the call and has no mcpServers key,
\* or one whose value is not a JSON object
NoServersObject ==
    /\ target = "gemini" /\ pc # "idle" /\ HasServers(bundle) /\ ExistingParses
    /\ "mcpServers" \notin DOMAIN existingAtStart \/ existingAtStart.mcpServers.k # "obj"

\* C24: in writeGeminiBundle, when the existing settings.json parses but has
\* no mcpServers key, or its mcpServers value is not an object, the call does
\* not fail (a failed call has a rejected file-system operation) and the
\* merge treats the existing sub-object as empty: the written mcpServers
\* equals bundle.mcpServers.
C24_NonObjectServersAsEmpty ==
    NoServersObject =>
        /\ pc = "threw" => failedOp # {}
        /\ pc = "returned" =>
              /\ "mcpServers" \in DOMAIN written
              /\ written.mcpServers = bundle.mcpServers

\* a writeGeminiBundle call whose bundle has nothing to merge
NothingToMerge ==
    /\ target = "gemini" /\ pc # "idle"
    /\ bundle.mcpServers \in {NoServers, JObj(EmptyObj)}

\* C26: writeGeminiBundle leaves settings.json alone when bundle.mcpServers
\* is undefined or an empty object: no operation on settings.json is ever in
\* flight (no backup, no existence test, no read, no write), no backup of it
\* appears and the file is as it was when the call started, whatever skills
\* and commands the bundle carries.
C26_SettingsLeftAlone ==
    NothingToMerge =>
        /\ \A op \in pending \cup failedOp : op.path # configFile
        /\ configFile \notin backupInvoked
        /\ ConfigUntouched

\* C26 witness: a call with an empty mcpServers object has written its
\* skills and commands next to a settings.json that was already there
C26_Witness ==
    /\ NothingToMerge /\ pc = "returned"
    /\ bundle.mcpServers = JObj(EmptyObj)
    /\ configFile \in DOMAIN fs0
    /\ \E j \in 1..Len(bundle.commands) : commandToml(bundle.commands[j].name) \in Created

\* ------------------------------------------------------ converter claims
\* the converter has returned
Converted == converted # NotConverted
TomlExt == <<".", "t", "o", "m", "l">>
\* gemini.ts:23  path.join(paths.commandsDir, `${command.name}.toml`), as
\* the segments below commandsDir
commandFile(name) == pathJoin(name \o TomlExt)
\* gemini.ts:11,17  path.join(paths.skillsDir, name), below skillsDir
skillDir(name) == pathJoin(name)
\* name is one path segment that stays where it is put
OneSegment(name) ==
    /\ name \notin {<<>>, <<".">>, <<".", ".">>}
    /\ \A k \in 1..Len(name) : name[k] \notin {"/", "\\", ":"}

\* C15: a Claude command named with colon-separated segments gets as its
\* bundle name the normalized segments joined by slashes, and the file
\* writeGeminiBundle writes for it lies one directory below commandsDir per
\* namespace segment: <commandsDir>/<seg 1>/.../<last seg>.toml; so
\* workflows:plan becomes workflows/plan, written to workflows/plan.toml.
C15_NamespacedCommandPath ==
    Converted =>
        \A k \in 1..Len(plugin.commands) :
            LET segs == split(plugin.commands[k], ":")
                name == converted.commands[k]
                file == commandFile(name)
            IN  /\ Len(split(name, "/")) = Len(segs)
                /\ \A j \in 1..Len(segs) :
                      /\ split(name, "/")[j] = normalizeName(segs[j])
                      /\ OneSegment(split(name, "/")[j])
                /\ Len(file) = Len(segs)
                /\ \A j \in 1..(Len(segs) - 1) : file[j] = normalizeName(segs[j])
                /\ file[Len(segs)] = normalizeName(segs[Len(segs)]) \o TomlExt
                /\ plugin.commands[k] = WorkflowsPlan =>
                      /\ name = <<"w", "o", "r", "k", "f", "l", "o", "w", "s", "/", "p", "l", "a", "n">>
                      /\ file = <<SubSeq(WorkflowsPlan, 1, 9), SubSeq(WorkflowsPlan, 11, 14) \o TomlExt>>

\* C15 witness: workflows:plan and a second namespaced command have been converted
C15_Witness ==
    /\ Converted
    /\ Len(plugin.commands) = 2
    /\ plugin.commands[1] = WorkflowsPlan
    /\ Len(split(plugin.commands[2], ":")) = 3
    /\ Len(commandFile(converted.commands[2])) = 3

\* C16: the bundle of convertClaudeToGemini has pairwise distinct command
\* names, and generated skill names distinct from each other and from every
\* pass-through skill name, so no two artifact writes of one
\* writeGeminiBundle call target the same path.
C16_UniqueNames ==
    Converted =>
        /\ Distinct(converted.commands)
        /\ Distinct(converted.generatedSkills \o converted.skillDirs)
        /\ Distinct([k \in 1..Len(converted.commands) |-> commandFile(converted.commands[k])])
        /\ Distinct([k \in 1..Len(converted.generatedSkills \o converted.skillDirs) |->
                        skillDir((converted.generatedSkills \o converted.skillDirs)[k])])

\* a name of one or more characters, all of them of [a-z0-9_-]
SafeName(name) ==
    /\ name # <<>>
    /\ \A k \in 1..Len(name) :
          name[k] \in Lowercase \cup {Digits[d] : d \in 1..10} \cup {"_", "-"}

\* C25: every generated skill name, and every slash-separated segment of
\* every command name, in the bundle of convertClaudeToGemini is non-empty
\* and made of [a-z0-9_-] only (so never ".", ".." or a path separator);
\* hence the skill's directory is one segment below skillsDir, and the
\* command's .toml lies below commandsDir, one level per segment.
C25_FilesystemSafeNames ==
    Converted =>
        /\ \A k \in 1..Len(converted.generatedSkills) :
              LET name == converted.generatedSkills[k]
              IN  /\ SafeName(name)
                  /\ skillDir(name) = <<name>>
        /\ \A k \in 1..Len(converted.commands) :
              LET segs == split(converted.commands[k], "/")
                  file == commandFile(converted.commands[k])
              IN  /\ \A j \in 1..Len(segs) : SafeName(segs[j])
                  /\ Len(file) = Len(segs)
                  /\ \A j \in 1..Len(segs) :
                        file[j] = IF j = Len(segs) THEN segs[j] \o TomlExt ELSE segs[j]

\* C25 witness: a command named "/.:" has been converted, to item/item
C25_Witness ==
    /\ Converted
    /\ \E k \in 1..Len(plugin.commands) :
          /\ plugin.commands[k] = <<"/", ".", ":">>
          /\ converted.commands[k] = Item \o <<"/">> \o Item

\* ------------------------------------------------------------ CLI claims
\* the name has no handler, or a handler that is not implemented
BadName(n) == n \notin DOMAIN targets \/ ~targets[n].implemented
\* the events of one kind the run has logged
Events(ev) == {k \in 1..Len(trace) : trace[k].ev = ev}
\* a run is under way or over
Running == cliPc # "idle"

\* C17 as stated: in a run given an unknown or unimplemented target name,
\* as --to or in the --also list, no target's write function is called.
C17_NoWriteWithBadName ==
    (Running /\ (BadName(args.to) \/ \E k \in 1..Len(extraTargets) : BadName(extraTargets[k])))
        => Events("write") = {}

\* C17 amended: an unknown or unimplemented --to name is rejected with an
\* error before the plugin is loaded or fetched and before any converter or
\* writer is called; an unknown or unimplemented --also entry is skipped
\* with a warning, and no write function is ever called for such a name
\* (the primary target has been written by then).
C17_BadPrimaryRejected ==
    Running =>
        /\ BadName(args.to) =>
              /\ trace = <<>> /\ tempRoot = None /\ writing = None
              /\ cliPc \in {"start", "failed"}
              /\ cliPc = "failed" =>
                    caught \in {"Unknown target", "registered but not implemented yet"}
        /\ \A k \in Events("write") \cup Events("convert") : ~BadName(trace[k].t)
        /\ writing # None => ~BadName(writing)
        /\ \A k \in 1..Len(extraTargets) :
              (BadName(extraTargets[k]) /\ (k < extraIndex \/ cliPc = "done")) =>
                  /\ \E w \in Events("warn") : trace[w].t = extraTargets[k]
                  /\ \E w \in Events("returned") : trace[w].t = args.to

\* C17 witness: a run with an unknown --to and a known --also target has
\* been rejected
C17_Witness ==
    /\ cliPc = "failed" /\ caught = "Unknown target"
    /\ args.to \notin DOMAIN targets
    /\ \E k \in 1..Len(extraTargets) : ~BadName(extraTargets[k])

\* how many events of one kind come before the k-th
Before(ev, k) == Cardinality({j \in Events(ev) : j < k})
\* the events that settle what became of a target: its write is called, or
\* it is skipped with a warning
Marks == SelectSeq(trace, LAMBDA x : x.ev \in {"write", "warn"})

\* C21: the targets of one run are handled one after the other: whenever a
\* converter or writer is called, every write called before has returned;
\* the first target written is the primary one and the --also entries
\* follow one at a time in the order listed; never are two writes in progress.
C21_SequentialTargets ==
    Running =>
        /\ \A k \in Events("convert") \cup Events("write") :
              Before("write", k) = Before("returned", k)
        /\ Cardinality(Events("write"))
              - Cardinality(Events("returned")) - Cardinality(Events("threw"))
                 = IF writing = None THEN 0 ELSE 1
        /\ Len(Marks) <= 1 + Len(extraTargets)
        /\ \A k \in 1..Len(Marks) :
              IF k = 1 THEN Marks[k] = Ev("write", args.to)
              ELSE Marks[k].t = extraTargets[k - 1]

\* C21 witness: the run is over with the primary and two --also targets
\* written, in the order listed
C21_Witness ==
    /\ cliPc = "done"
    /\ Cardinality(Events("write")) = 3 /\ Cardinality(Events("returned")) = 3
    /\ Len(extraTargets) = 2 /\ extraTargets[1] # extraTargets[2]

\* the run is over: run has returned (done) or thrown (failed)
Over == cliPc \in {"done", "failed"}
\* every target of the run has had its write called or has been skipped
AllSettled == Len(Marks) = 1 + Len(extraTargets)

\* C27: install always removes the temporary clone: a temporary directory
\* exists only from mkdtemp on, and when the run is over (clone failure,
\* plugin not found in the clone, plugin load error, converter returning no
\* bundle, writer error, success) it has been removed, once, as the last
\* thing the run did.
C27_CloneAlwaysRemoved ==
    /\ tempRoot # None <=> Events("mkdtemp") # {}
    /\ tempRoot = "created" => cliPc \in {"clone", "find"} \/ InTry \/ cliPc = "finally"
    /\ (Over /\ Events("mkdtemp") # {}) =>
          /\ tempRoot = "removed"
          /\ Cardinality(Events("rm")) = 1
          /\ trace[Len(trace)].ev = "rm"

\* C27 witness: the write of an --also target threw in a run of install
\* that had cloned the repository
C27_Witness ==
    /\ cliPc = "failed" /\ caught = "write failed"
    /\ Events("clone") # {} /\ Cardinality(Events("returned")) = 1
    /\ tempRoot = "removed"

\* C28: a skipped --also entry does not stop the run: an unknown or
\* unimplemented entry, or one whose converter returns no bundle, gets a
\* warning and no write call, and the entries after it are still handled;
\* a run that is over without having handled every entry has failed, either
\* before the primary write was called or with an error thrown by a writer.
C28_SkippedAlsoContinues ==
    Running =>
        /\ \A k \in 2..Len(Marks) :
              /\ BadName(extraTargets[k - 1]) => Marks[k].ev = "warn"
              /\ Marks[k].ev = "warn" =>
                    \/ BadName(extraTargets[k - 1])
                    \/ "null" \in ConvertResults(extraTargets[k - 1])
        /\ Cardinality(Events("warn")) + Cardinality(Events("write")) = Len(Marks)
        /\ (Over /\ ~AllSettled) =>
              /\ cliPc = "failed"
              /\ Len(Marks) = 0 \/ (caught = "write failed" /\ Marks[Len(Marks)].ev = "write")
        /\ cliPc = "done" => AllSettled

\* C28 witness: the first --also entry was skipped and the second written
C28_Witness ==
    /\ cliPc = "done" /\ Len(Marks) = 3
    /\ Marks[2] = Ev("warn", "bogus")
    /\ Marks[3].ev = "write"
    /\ Cardinality(Events("returned")) = 2

\* "codex" is the primary target or an entry of the --also list
CodexAmongTargets == \E n \in 1..Len(allTargets) : allTargets[n] = "codex"

\* C29: ensureCodexAgentsFile is called at most once per run, only after
\* the primary write and every --also write has returned and every --also
\* entry has been handled, and only when "codex" is the primary target or
\* in the --also list; a run that returns has called it exactly when codex
\* is among the targets, and a run that failed before that point has not.
C29_CodexAgentsFileOnce ==
    Running =>
        LET calls == Events("ensureCodexAgentsFile") IN
        /\ Cardinality(calls) <= 1
        /\ \A k \in calls :
              /\ CodexAmongTargets
              /\ AllSettled
              /\ Events("threw") = {}
              /\ Cardinality(Events("returned")) = Cardinality(Events("write"))
              /\ \A j \in Events("write") \cup Events("returned") \cup Events("warn") : j < k
        /\ cliPc = "done" => (calls # {} <=> CodexAmongTargets)
        /\ (cliPc = "failed" /\ caught # "ensureCodexAgentsFile failed") => calls = {}

\* C29 witness: codex is only in the --also list and was skipped there for
\* want of a bundle; ensureCodexAgentsFile was called all the same
C29_Witness ==
    /\ cliPc = "done"
    /\ args.to # "codex"
    /\ Ev("warn", "codex") \in {trace[k] : k \in 1..Len(trace)}
    /\ Events("ensureCodexAgentsFile") # {}

\* C30: validation precedes all effects: in a run given an unknown
\* --permissions value nothing is ever loaded, fetched, converted or
\* written and no repository is cloned; the run fails, with the permissions
\* error unless the target name was rejected first.
C30_ValidationFirst ==
    (Running /\ args.permissions \notin permissionModes) =>
        /\ trace = <<>> /\ tempRoot = None /\ writing = None
        /\ cliPc \in {"start", "permissions", "failed"}
        /\ cliPc = "failed" =>
              IF BadName(args.to)
              THEN caught \in {"Unknown target", "registered but not implemented yet"}
              ELSE caught = "Unknown permissions mode"

\* C30 witness: install of a plugin to fetch from GitHub has failed on the
\* permissions mode
C30_Witness ==
    /\ cliPc = "failed" /\ caught = "Unknown permissions mode"
    /\ cliCommand = "install" /\ args.plugin = "github"
    /\ extraTargets # <<>>
====
